---- MODULE Spec2Model ----
(***************************************************************************)
(* A model of the survive2 raycasting renderer (Game.draw and its          *)
(* collaborators in src/unnamed/part_000, Raycaster in src/js/raycaster.js)*)
(*                                                                         *)
(* Arithmetic.  The program works in floating point; the model works in    *)
(* exact rationals over the integers.  The heading of the player is a      *)
(* rational unit vector (c, s)/Fn = (cos rot, sin rot), and the screen     *)
(* distance is an integer, so every ray direction is proportional to an    *)
(* integer vector u.  A distance along a ray is kept in "ray units":       *)
(*      tau = crossDist * RayK / |u|        (an integer)                   *)
(* which orders the hits of one column exactly as crossDist does.  The     *)
(* perpendicular distance of the program (correctDist) is the rational     *)
(* tau * Fn * viewDist / (RayG * RayK), kept as a pair [n, d].             *)
(* Vertical quantities (player.z, the horizon) are kept doubled so that    *)
(* halves stay integers.                                                   *)
(***************************************************************************)
EXTENDS Integers, Sequences, FiniteSets, TLC

(***************************************************************************)
(* Program constants.                                                      *)
(***************************************************************************)
TILE_SIZE == 64
stripWidth == 2
NumLevels == 2
SeeOverZ == 5
Infinity == -1
DoorMin == 1000
HorizDoorMin == 1500
jumpStrength == 12
moveSpeed == 4
groundZ == 0
pitchStep == 10
maxKeyPitch == 200
CullTanNum == 22
CullTanDen == 23

(***************************************************************************)
(* Bounds of the model: the size of the map and of the screen.             *)
(***************************************************************************)
MAP_WIDTH == 6
MAP_HEIGHT == 5
NumRays == 4
displayHeight == 16
MaxUpdates == 3

\* The largest material code classified.
MaxCode == 1600

\* Correct distances are n / DistDen for n in 1 .. MaxDistN.
DistDen == 2

MaxDistN == 60

\* The number of pixels of a row of the wall-top scan.
RowWidth == 6

\* The number of steps of a column's slope march.
MarchSteps == 5

displayWidth == NumRays * stripWidth

\* Raycaster.screenDistance: (W/2) / tan(FOV/2).  tan(30 degrees) is
\* irrational; the model's field of view has tan(FOV/2) = 1/2 (53 degrees),
\* which makes the screen distance the integer W.
viewDist == displayWidth

Abs(a) == IF a < 0 THEN -a ELSE a

Min(a, b) == IF a < b THEN a ELSE b

Max(a, b) == IF a > b THEN a ELSE b

\* Math.floor and Math.ceil of the rational n/d, d > 0.
Floor(n, d) == n \div d

Ceil(n, d) == -((-n) \div d)

RECURSIVE GCD(_, _)
GCD(a, b) == IF b = 0 THEN a ELSE GCD(b, a % b)

(***************************************************************************)
(* Material codes (Raycaster.isHorizontalDoor / isVerticalDoor / isDoor).  *)
(***************************************************************************)
isHorizontalDoor(wallType) == wallType > HorizDoorMin

\* A vertical door range that starts at DoorMin itself.
isVerticalDoorFromMin(wallType) ==
    wallType >= DoorMin /\ wallType <= HorizDoorMin

isVerticalDoor(wallType) == wallType > DoorMin /\ wallType <= HorizDoorMin

isDoor(wallType) == isVerticalDoor(wallType) \/ isHorizontalDoor(wallType)

(***************************************************************************)
(* The map.  maps.js is not part of the sources, so the model uses a small *)
(* room: walls all around except a gap in the west wall, a block inside,   *)
(* a vertical and a horizontal door, and an upper level with a tall east   *)
(* wall and one floating block.                                            *)
(***************************************************************************)
OnBorder(x, y) == x = 0 \/ y = 0 \/ x = MAP_WIDTH - 1 \/ y = MAP_HEIGHT - 1

g_map(x, y) ==
    CASE <<x, y>> = <<0, 2>> -> 0
      [] <<x, y>> = <<3, 1>> -> 1001
      [] <<x, y>> = <<2, 3>> -> 1501
      [] <<x, y>> = <<3, 3>> -> 2
      [] <<x, y>> = <<5, 2>> -> 3
      [] OTHER -> IF OnBorder(x, y) THEN 1 ELSE 0

g_map2(x, y) ==
    CASE <<x, y>> = <<4, 1>> -> 4
      [] <<x, y>> = <<1, 3>> -> 1002
      [] OTHER -> IF x = MAP_WIDTH - 1 THEN 2 ELSE 0

\* Game.init: grids[0] = flattenMap(g_map), grids[1] = flattenMap(g_map2);
\* row-major, offset = x + y * MAP_WIDTH.
InitGrids ==
    [level \in 0 .. NumLevels - 1 |->
        [offset \in 0 .. MAP_WIDTH * MAP_HEIGHT - 1 |->
            IF level = 0
            THEN g_map(offset % MAP_WIDTH, offset \div MAP_WIDTH)
            ELSE g_map2(offset % MAP_WIDTH, offset \div MAP_WIDTH)]]

\* The poses a behaviour starts from.  A heading <<c, s>> stands for the
\* angle rot with cos rot = c/Fn and sin rot = s/Fn.
Headings == { <<5, 0>>, <<0, -5>>, <<-5, 0>>, <<4, -3>>, <<3, 4>>, <<-4, 3>> }

Fn == CHOOSE n \in 1 .. 10 : \A h \in Headings : h[1] * h[1] + h[2] * h[2] = n * n

PlayerXY == { <<160, 160>>, <<160, 144>>, <<72, 232>>, <<288, 232>>,
              <<288, 160>> }

\* Twice player.z after n updates of a jump from the ground: velocityZ
\* starts at jumpStrength and loses gravity = 0.5 before each move.
JumpZ2(n) == 2 * jumpStrength * n - (n * (n + 1)) \div 2

\* Twice player.velocityZ after those n updates; 0 on the ground.
JumpVZ2(n) == IF n = 0 THEN 0 ELSE 2 * jumpStrength - n

\* On the ground, one and four updates into a jump, and at its apex.
JumpTicks == { 0, 1, 4, 2 * jumpStrength - 1 }

PlayerZ2 == { JumpZ2(n) : n \in JumpTicks }

Pitches == { 0, 5 }

DoorKeys == { k \in 0 .. MAP_WIDTH * MAP_HEIGHT - 1 :
                isDoor(g_map(k % MAP_WIDTH, k \div MAP_WIDTH)) }

VARIABLES
    grids,          \* raycaster.grids: level -> offset -> code
    doors,          \* Game.doors: cell key -> "unset" | "open" | "closed"
    player,         \* [x, y, z2, rot]: z2 = 2 * player.z, rot a heading
    pitch,          \* Game.pitch
    pc,             \* where the frame loop is
    zBuffer,        \* Game.zBuffer: screen column -> rational or Infinity
    strip,          \* the column being cast
    cx, cy,         \* the cell the column's ray is in
    tMaxX, tMaxY,   \* ray-unit distance to the next vertical/horizontal line
    prevWalls,      \* level -> code of the solid the ray is inside, or 0
    hits,           \* the column's hits
    visited,        \* the cells the column's loop stepped to, in order
    hitIdx,         \* position of pass 1 in hits / of pass 2 in allDoorHits
    doorHits,       \* the column's door hits, deferred
    wallSegments,   \* strip -> drawn wall segments
    allDoorHits,    \* deferred door hits
    drawn,          \* the draw calls of the frame, in order
    frameHits,      \* history: strip -> the sorted hits of its column
    lastToggle,     \* history: the key interactDoor last toggled, or -1
    lastMove,       \* history: what the last update() was asked and did
    ticks,          \* history: the number of update() calls so far
    calc            \* the argument and the result of a function under study

vars == << grids, doors, player, pitch, pc, zBuffer, strip, cx, cy, tMaxX,
           tMaxY, prevWalls, hits, visited, hitIdx, doorHits, wallSegments,
           allDoorHits, drawn, frameHits, lastToggle, lastMove, ticks,
           calc >>

gameVars == << grids, doors, player, pitch, pc, zBuffer, strip, cx, cy, tMaxX,
               tMaxY, prevWalls, hits, visited, hitIdx, doorHits,
               wallSegments, allDoorHits, drawn, frameHits, lastToggle,
               lastMove, ticks >>

(***************************************************************************)
(* Raycaster.cellAt / safeCellAt: the bounds test is on the level and on   *)
(* the flattened offset only.                                              *)
(***************************************************************************)
cellAt(x, y, z) ==
    IF z < 0 \/ z >= NumLevels THEN 0
    ELSE LET offset == x + y * MAP_WIDTH
         IN  IF offset < 0 \/ offset >= MAP_WIDTH * MAP_HEIGHT THEN 0
             ELSE grids[z][offset]

safeCellAt(x, y, z, fallback) ==
    LET offset == x + y * MAP_WIDTH
    IN  IF z < 0 \/ z >= NumLevels \/ offset < 0
           \/ offset >= MAP_WIDTH * MAP_HEIGHT
        THEN fallback
        ELSE grids[z][offset]

\* this.doors[key] read as a condition: undefined and false are falsy.
doorOpen(key) == key \in DOMAIN doors /\ doors[key] = "open"

(***************************************************************************)
(* Game.isWall: movement collision, in world coordinates.                  *)
(***************************************************************************)
\* isWall without the door map: every non-zero code blocks.
isWallIgnoreDoors(x, y) ==
    LET wx == Floor(x, TILE_SIZE)
        wy == Floor(y, TILE_SIZE)
    IN  IF wx < 0 \/ wx >= MAP_WIDTH \/ wy < 0 \/ wy >= MAP_HEIGHT THEN TRUE
        ELSE cellAt(wx, wy, 0) > 0

\* isWall without the bounds test: the cell is read whatever the position.
isWallNoBounds(x, y) ==
    LET wx == Floor(x, TILE_SIZE)
        wy == Floor(y, TILE_SIZE)
        wall == cellAt(wx, wy, 0)
    IN  IF isDoor(wall) THEN ~doorOpen(wx + wy * MAP_WIDTH)
        ELSE wall > 0

isWall(x, y) ==
    LET wx == Floor(x, TILE_SIZE)
        wy == Floor(y, TILE_SIZE)
        wall == cellAt(wx, wy, 0)
    IN  IF wx < 0 \/ wx >= MAP_WIDTH \/ wy < 0 \/ wy >= MAP_HEIGHT THEN TRUE
        ELSE IF isDoor(wall) THEN ~doorOpen(wx + wy * MAP_WIDTH)
        ELSE wall > 0

(***************************************************************************)
(* Game.interactDoor: the cell 1.5 tiles ahead of the player.              *)
(*   cellX = floor((x + cos(rot) * 1.5 T) / T), cos(rot) = c / Fn          *)
(***************************************************************************)
interactCellX == Floor(2 * Fn * player.x + 3 * TILE_SIZE * player.rot[1],
                       2 * Fn * TILE_SIZE)

\* The target point taken at the player's own position on the Y axis.
interactCellYHere == Floor(player.y, TILE_SIZE)

interactCellY == Floor(2 * Fn * player.y - 3 * TILE_SIZE * player.rot[2],
                       2 * Fn * TILE_SIZE)

toggled(v) == IF v = "open" THEN "closed" ELSE "open"

\* interactDoor without the door test on the cell ahead: some entry of the
\* door map is toggled whatever the cell holds.
interactDoorAnyTarget ==
    \E key \in DOMAIN doors :
        /\ isDoor(cellAt(interactCellX, interactCellY, 0))
             => key = interactCellX + interactCellY * MAP_WIDTH
        /\ doors' = [doors EXCEPT ![key] = toggled(doors[key])]
        /\ lastToggle' = key

interactDoor ==
    LET key == interactCellX + interactCellY * MAP_WIDTH
    IN  IF isDoor(cellAt(interactCellX, interactCellY, 0))
        THEN /\ doors' = [doors EXCEPT ![key] = toggled(doors[key])]
             /\ lastToggle' = key
        ELSE UNCHANGED << doors, lastToggle >>

(***************************************************************************)
(* The ray of a screen column (Game.draw, "Cast rays and draw walls").     *)
(*   screenX = (numRays / 2 - strip) * stripWidth                          *)
(*   stripAngle = atan(screenX / viewDist), rayAngle = rot + stripAngle    *)
(*   dirX = cos(rayAngle), dirY = -sin(rayAngle)                           *)
(* (cos, sin)(rayAngle) is proportional to                                 *)
(*   (c * viewDist - s * screenX, s * viewDist + c * screenX).             *)
(***************************************************************************)
screenX(st) == ((NumRays - 2 * st) * stripWidth) \div 2

rawDirX(st) == player.rot[1] * viewDist - player.rot[2] * screenX(st)

rawDirY(st) == -(player.rot[2] * viewDist + player.rot[1] * screenX(st))

RayG(st) == GCD(Abs(rawDirX(st)), Abs(rawDirY(st)))

dirX(st) == rawDirX(st) \div RayG(st)

dirY(st) == rawDirY(st) \div RayG(st)

\* The scale of the column's ray units.
RayK(st) == (IF dirX(st) = 0 THEN 1 ELSE Abs(dirX(st)))
            * (IF dirY(st) = 0 THEN 1 ELSE Abs(dirY(st)))

stepX(st) == IF dirX(st) >= 0 THEN 1 ELSE -1

stepY(st) == IF dirY(st) >= 0 THEN 1 ELSE -1

\* tDeltaX without Math.abs: the signed quotient.
tDeltaXSigned(st) ==
    IF dirX(st) # 0 THEN (TILE_SIZE * RayK(st)) \div dirX(st) ELSE Infinity

tDeltaX(st) ==
    IF dirX(st) # 0 THEN (TILE_SIZE * RayK(st)) \div Abs(dirX(st)) ELSE Infinity

tDeltaY(st) ==
    IF dirY(st) # 0 THEN (TILE_SIZE * RayK(st)) \div Abs(dirY(st)) ELSE Infinity

startCellX == Floor(player.x, TILE_SIZE)

startCellY == Floor(player.y, TILE_SIZE)

\* tMaxX measured from the start cell's far edge instead of the player.
tMaxX0FromCellEdge(st) ==
    IF dirX(st) # 0 THEN (TILE_SIZE * RayK(st)) \div Abs(dirX(st)) ELSE Infinity

tMaxX0(st) ==
    IF dirX(st) > 0
    THEN (((startCellX + 1) * TILE_SIZE - player.x) * RayK(st)) \div dirX(st)
    ELSE IF dirX(st) < 0
    THEN ((player.x - startCellX * TILE_SIZE) * RayK(st)) \div (-dirX(st))
    ELSE Infinity

\* tMaxY without the branch for dirY = 0: the zero component is taken as
\* a step of one unit towards +Y.
tMaxY0NoZeroCase(st) ==
    IF dirY(st) < 0
    THEN ((player.y - startCellY * TILE_SIZE) * RayK(st)) \div (-dirY(st))
    ELSE (((startCellY + 1) * TILE_SIZE - player.y) * RayK(st))
             \div (IF dirY(st) = 0 THEN 1 ELSE dirY(st))

tMaxY0(st) ==
    IF dirY(st) > 0
    THEN (((startCellY + 1) * TILE_SIZE - player.y) * RayK(st)) \div dirY(st)
    ELSE IF dirY(st) < 0
    THEN ((player.y - startCellY * TILE_SIZE) * RayK(st)) \div (-dirY(st))
    ELSE Infinity

\* a < b and a + b on distances that may be Infinity.
TLess(a, b) == a # Infinity /\ (b = Infinity \/ a < b)

TAdd(a, b) == IF a = Infinity \/ b = Infinity THEN Infinity ELSE a + b

canSeeOverWalls == player.z2 > 2 * SeeOverZ

(***************************************************************************)
(* The per-level body of the DDA loop.                                     *)
(***************************************************************************)
\* isOpenDoor that ignores the doors map.
isOpenDoorNever(wall, cellKey) == FALSE

isOpenDoor(wall, cellKey) == isDoor(wall) /\ doorOpen(cellKey)

isSolid(wall, cellKey) == wall > 0 /\ ~isOpenDoor(wall, cellKey)

\* prevWalls[level] for the cell the player stands in.
startPrevWall(level) ==
    LET startWall == cellAt(startCellX, startCellY, level)
        startKey == startCellX + startCellY * MAP_WIDTH
    IN  IF startWall > 0 /\ ~(isDoor(startWall) /\ doorOpen(startKey))
        THEN startWall ELSE 0

\* The front-face test without its isSolid conjunct.
frontFaceAnyCell(wall, cellKey, prev) == prev = 0

frontFace(wall, cellKey, prev) == isSolid(wall, cellKey) /\ prev = 0

backFace(wall, cellKey, prev) ==
    ~isSolid(wall, cellKey) /\ prev > 0 /\ canSeeOverWalls

nextPrevWall(wall, cellKey) ==
    IF isSolid(wall, cellKey) /\ ~isDoor(wall) THEN wall ELSE 0

\* The hits one level adds when the ray steps from cell (px, py) into cell
\* (nx, ny) at distance crossDist.  wallX, wallY are the cell whose code the
\* hit carries: the cell entered for a front face, the cell left for a back
\* face.
levelHits(level, nx, ny, px, py, crossDist, crossVertical, prev) ==
    LET wall == cellAt(nx, ny, level)
        cellKey == nx + ny * MAP_WIDTH
    IN  (IF frontFace(wall, cellKey, prev)
         THEN << [dist |-> crossDist, horiz |-> ~crossVertical, type |-> wall,
                  level |-> level, face |-> "front",
                  wallX |-> nx, wallY |-> ny] >>
         ELSE << >>)
        \o
        (IF backFace(wall, cellKey, prev)
         THEN << [dist |-> crossDist, horiz |-> ~crossVertical, type |-> prev,
                  level |-> level, face |-> "back",
                  wallX |-> px, wallY |-> py] >>
         ELSE << >>)

RECURSIVE allLevelHits(_, _, _, _, _, _, _)
allLevelHits(level, nx, ny, px, py, crossDist, crossVertical) ==
    IF level >= NumLevels THEN << >>
    ELSE levelHits(level, nx, ny, px, py, crossDist, crossVertical,
                   prevWalls[level])
         \o allLevelHits(level + 1, nx, ny, px, py, crossDist, crossVertical)

\* The ground test without its door exclusion.
groundSolidAnyCode(nx, ny) == cellAt(nx, ny, 0) > 0

groundSolid(nx, ny) ==
    LET groundWall == cellAt(nx, ny, 0)
    IN  groundWall > 0 /\ ~isDoor(groundWall)

\* The bounds check without its tests against 0.
outOfMapUpperOnly(nx, ny) == nx >= MAP_WIDTH \/ ny >= MAP_HEIGHT

outOfMap(nx, ny) == nx < 0 \/ nx >= MAP_WIDTH \/ ny < 0 \/ ny >= MAP_HEIGHT

stopAtWall(nx, ny) == groundSolid(nx, ny) /\ ~canSeeOverWalls

(***************************************************************************)
(* Rationals [n, d] with d >= 0; d = 0 stands for Infinity.                *)
(***************************************************************************)
QInfinity == [n |-> 1, d |-> 0]

QLess(a, b) == a.n * b.d < b.n * a.d

QEq(a, b) == a.n * b.d = b.n * a.d

\* correctDist = hit.dist * cos(stripAngle), for a hit at ray-unit distance
\* tau of column st.
correctDist(st, tau) ==
    [n |-> tau * Fn * viewDist, d |-> RayG(st) * RayK(st)]

(***************************************************************************)
(* Projection of a world height to a screen row (Game.draw, PASS 1 and 2): *)
(*   horizon + (cameraZ - height) * viewDist / correctDist                 *)
(* as the rational projNum / projDen; h2 is twice the world height.        *)
(***************************************************************************)
horizon2 == displayHeight + 2 * pitch

projNum(st, tau, h2) ==
    horizon2 * tau * Fn + (TILE_SIZE + player.z2 - h2) * RayG(st) * RayK(st)

projDen(tau) == 2 * tau * Fn

levelBottom2(level) == 2 * level * TILE_SIZE

levelTop2(level) == 2 * (level + 1) * TILE_SIZE

\* yStart = Math.max(0, Math.floor(wallTop))
spanStart(st, hit) ==
    Max(0, Floor(projNum(st, hit.dist, levelTop2(hit.level)),
                 projDen(hit.dist)))

\* yEnd = Math.min(H, Math.ceil(wallBottom))
spanEnd(st, hit) ==
    Min(displayHeight, Ceil(projNum(st, hit.dist, levelBottom2(hit.level)),
                            projDen(hit.dist)))

\* this.TEXTURE_SIZE, the height of one wall texture of the atlas.
TEXTURE_SIZE == 128

\* The height of the fallback gates texture, createColorTexture's size.
gatesHeight == 64

\* const srcH: TEXTURE_SIZE in PASS 1, tex.height in PASS 2.
srcH(hit) == IF isDoor(hit.type) THEN gatesHeight ELSE TEXTURE_SIZE

\* wallHeight = wallBottom - wallTop, over projDen(hit.dist).
wallHeightNum(st, hit) ==
    projNum(st, hit.dist, levelBottom2(hit.level))
        - projNum(st, hit.dist, levelTop2(hit.level))

\* ((y - wallTop) / wallHeight) * srcH for a screen row y: srcYOffset for
\* y = drawYStart, srcYEndCalc for y = drawYEnd.
srcYAt(st, hit, y) ==
    [n |-> (y * projDen(hit.dist) - projNum(st, hit.dist, levelTop2(hit.level)))
               * srcH(hit),
     d |-> wallHeightNum(st, hit)]

\* The arguments of ctx.drawImage for a span of rows yStart .. yEnd.
drawImage(kind, st, hit, yStart, yEnd) ==
    [kind |-> kind, col |-> st, yStart |-> yStart, yEnd |-> yEnd,
     id |-> hit.type, level |-> hit.level,
     dist |-> correctDist(st, hit.dist), tau |-> hit.dist,
     srcYOffset |-> srcYAt(st, hit, yStart),
     srcYEndCalc |-> srcYAt(st, hit, yEnd),
     srcH |-> srcH(hit)]

offScreen(yStart, yEnd) == yEnd <= 0 \/ yStart >= displayHeight

\* The z-buffer guard dropped: every on-screen span writes its distance.
reachesHorizonAlways(yEnd) == TRUE

reachesHorizon(yEnd) == 2 * yEnd >= horizon2

\* The z-buffer after the opaque pass has handled a span of column st at
\* perpendicular distance cd: the columns drawX .. drawX + stripWidth - 1
\* keep the minimum.
zWrite(zb, st, cd) ==
    [sx \in DOMAIN zb |->
        IF /\ sx >= st * stripWidth
           /\ sx < st * stripWidth + stripWidth
           /\ sx < displayWidth
           /\ QLess(cd, zb[sx])
        THEN cd ELSE zb[sx]]

(***************************************************************************)
(* hits.sort: far to near, then higher level first.  Array.prototype.sort  *)
(* is stable, so the result is the stable insertion order under the        *)
(* comparator.                                                             *)
(***************************************************************************)
\* The comparator without the level tie-break.
hitBeforeNoTie(a, b) == b.dist - a.dist < 0

hitBefore(a, b) ==
    IF a.dist # b.dist THEN b.dist - a.dist < 0
    ELSE b.level - a.level < 0

RECURSIVE insertHit(_, _, _)
insertHit(sorted, h, i) ==
    IF i > Len(sorted) THEN Append(sorted, h)
    ELSE IF hitBefore(h, sorted[i])
    THEN SubSeq(sorted, 1, i - 1) \o << h >> \o SubSeq(sorted, i, Len(sorted))
    ELSE insertHit(sorted, h, i + 1)

\* No sort: the hits stay in the order of the traversal, near to far.
sortHitsUnsorted(hs) == hs

RECURSIVE sortHits(_)
sortHits(hs) ==
    IF hs = << >> THEN << >>
    ELSE insertHit(sortHits(SubSeq(hs, 1, Len(hs) - 1)), hs[Len(hs)], 1)

(***************************************************************************)
(* PASS 2: clipping a door span against the wall segments of its column.   *)
(***************************************************************************)
\* No clipping: the door keeps its whole span.
clipDoorNone(segs, i, cd, yStart, yEnd) == [yStart |-> yStart, yEnd |-> yEnd]

RECURSIVE clipDoor(_, _, _, _, _)
clipDoor(segs, i, cd, yStart, yEnd) ==
    IF i > Len(segs) THEN [yStart |-> yStart, yEnd |-> yEnd]
    ELSE LET seg == segs[i]
         IN  IF QLess(seg.dist, cd) /\ seg.yStart < yEnd /\ seg.yEnd > yStart
             THEN IF seg.yStart <= yStart /\ seg.yEnd >= yEnd
                  THEN [yStart |-> yEnd, yEnd |-> yEnd]
                  ELSE IF seg.yStart <= yStart
                  THEN clipDoor(segs, i + 1, cd, Max(yStart, seg.yEnd), yEnd)
                  ELSE IF seg.yEnd >= yEnd
                  THEN clipDoor(segs, i + 1, cd, yStart, Min(yEnd, seg.yStart))
                  ELSE clipDoor(segs, i + 1, cd, yStart, yEnd)
             ELSE clipDoor(segs, i + 1, cd, yStart, yEnd)

(***************************************************************************)
(* Sprites (Game.initSprites, Game.drawSprites).  A sprite sits at the     *)
(* centre of its cell.                                                     *)
(***************************************************************************)
g_spritemap(x, y) ==
    CASE <<x, y>> = <<4, 3>> -> 1
      [] <<x, y>> = <<4, 2>> -> 2
      [] <<x, y>> = <<1, 1>> -> 3
      [] OTHER -> 0

RECURSIVE initSprites(_)
initSprites(offset) ==
    IF offset >= MAP_WIDTH * MAP_HEIGHT THEN << >>
    ELSE LET x == offset % MAP_WIDTH
             y == offset \div MAP_WIDTH
         IN  (IF g_spritemap(x, y) > 0
              THEN << [x |-> ((2 * x + 1) * TILE_SIZE) \div 2,
                       y |-> ((2 * y + 1) * TILE_SIZE) \div 2,
                       id |-> g_spritemap(x, y)] >>
              ELSE << >>)
             \o initSprites(offset + 1)

sprites == initSprites(0)

\* dist * dist of a sprite.
spriteDist2(sp) ==
    (sp.x - player.x) * (sp.x - player.x) + (sp.y - player.y) * (sp.y - player.y)

\* spriteData.sort((a, b) => b.dist - a.dist): far to near, stable.
RECURSIVE insertSprite(_, _, _)
insertSprite(sorted, sp, i) ==
    IF i > Len(sorted) THEN Append(sorted, sp)
    ELSE IF spriteDist2(sorted[i]) < spriteDist2(sp)
    THEN SubSeq(sorted, 1, i - 1) \o << sp >> \o SubSeq(sorted, i, Len(sorted))
    ELSE insertSprite(sorted, sp, i + 1)

RECURSIVE sortSprites(_)
sortSprites(sps) ==
    IF sps = << >> THEN << >>
    ELSE insertSprite(sortSprites(SubSeq(sps, 1, Len(sps) - 1)),
                      sps[Len(sps)], 1)

\* The direction of angle = atan2(-dy, dx) as a vector.  For a sprite at the
\* player's own position dx = dy = 0 and atan2(-0, 0) is 0: the direction
\* of angle 0.
spriteAtPlayer(sp) == sp.x = player.x /\ sp.y = player.y

spriteDX(sp) == IF spriteAtPlayer(sp) THEN 1 ELSE sp.x - player.x

spriteDY(sp) == IF spriteAtPlayer(sp) THEN 0 ELSE sp.y - player.y

\* cos and sin of angleDiff = rot - angle, both times Fn * the length of
\* the direction vector.
spriteFwd(sp) ==
    player.rot[1] * spriteDX(sp) - player.rot[2] * spriteDY(sp)

spriteLat(sp) ==
    player.rot[2] * spriteDX(sp) + player.rot[1] * spriteDY(sp)

\* Math.abs(angleDiff) > FOV / 2 + 0.3, with tan(FOV / 2 + 0.3) taken as
\* CullTanNum / CullTanDen for the model's field of view.
spriteCulled(sp) ==
    \/ spriteFwd(sp) <= 0
    \/ CullTanDen * Abs(spriteLat(sp)) > CullTanNum * spriteFwd(sp)

\* centerX = floor(W / 2 + tan(angleDiff) * viewDist), for a sprite in front.
spriteCenterX(sp) ==
    Floor(displayWidth * spriteFwd(sp) + 2 * viewDist * spriteLat(sp),
          2 * spriteFwd(sp))

ISqrt(n) ==
    CHOOSE r \in 0 .. TILE_SIZE * (MAP_WIDTH + MAP_HEIGHT) :
        r * r <= n /\ n < (r + 1) * (r + 1)

\* sqrt(d2) < q for a rational q, without squaring q.
distLess(d2, q) ==
    IF q.d = 0 THEN TRUE
    ELSE LET r == ISqrt(d2)
             qf == q.n \div q.d
             qr == q.n % q.d
         IN  IF r * r = d2 THEN r * q.d < q.n
             ELSE IF r + 1 <= qf THEN TRUE
             ELSE IF qf < r THEN FALSE
             ELSE (d2 - r * r) * q.d < 2 * r * qr + Ceil(qr * qr, q.d)

\* The sprite test without the z-buffer comparison.
spriteVisibleNoDepth(sp, zb) ==
    /\ ~spriteCulled(sp)
    /\ spriteCenterX(sp) >= 0
    /\ spriteCenterX(sp) < displayWidth

spriteVisible(sp, zb) ==
    /\ ~spriteCulled(sp)
    /\ spriteCenterX(sp) >= 0
    /\ spriteCenterX(sp) < displayWidth
    /\ distLess(spriteDist2(sp), zb[spriteCenterX(sp)])

spriteDraw(sp) ==
    [kind |-> "sprite", col |-> spriteCenterX(sp), yStart |-> 0, yEnd |-> 0,
     id |-> sp.id, level |-> 0, dist |-> QInfinity, tau |-> 0]

RECURSIVE spriteDraws(_, _, _)
spriteDraws(sps, i, zb) ==
    IF i > Len(sps) THEN << >>
    ELSE (IF spriteVisible(sps[i], zb) THEN << spriteDraw(sps[i]) >> ELSE << >>)
         \o spriteDraws(sps, i + 1, zb)

(***************************************************************************)
(* The frame.  Game.init leaves the door map empty and the player at the   *)
(* centre of cell (2, 2) facing east; a behaviour of the model starts from *)
(* a pose and a door map the game can have reached, and renders frames,    *)
(* with F key presses between them.                                        *)
(***************************************************************************)
\* No function has been applied.
NoCalc == [op |-> "none"]

NoMove == [fromX |-> 0, fromY |-> 0, dx |-> 0, dy |-> 0]

NoRay == [n \in 0 .. NumLevels - 1 |-> 0]

EmptySegments == [st \in 0 .. NumRays - 1 |-> << >>]

Init ==
    /\ grids = InitGrids
    /\ \E open \in SUBSET DoorKeys :
           doors = [k \in 0 .. MAP_WIDTH * MAP_HEIGHT - 1 |->
                       IF k \in open THEN "open" ELSE "unset"]
    /\ \E xy \in PlayerXY, rot \in Headings, n \in JumpTicks :
           player = [x |-> xy[1], y |-> xy[2], z2 |-> JumpZ2(n),
                     vz2 |-> JumpVZ2(n), rot |-> rot]
    /\ pitch \in Pitches
    /\ ~isWall(player.x, player.y)
    /\ pc = "idle"
    /\ zBuffer = [sx \in 0 .. displayWidth - 1 |-> QInfinity]
    /\ strip = 0
    /\ cx = 0 /\ cy = 0 /\ tMaxX = Infinity /\ tMaxY = Infinity
    /\ prevWalls = NoRay
    /\ hits = << >> /\ visited = << >> /\ hitIdx = 1 /\ doorHits = << >>
    /\ wallSegments = EmptySegments
    /\ allDoorHits = << >>
    /\ drawn = << >>
    /\ frameHits = EmptySegments
    /\ lastToggle = -1
    /\ lastMove = NoMove
    /\ ticks = 0
    /\ calc = NoCalc

rayVars == << cx, cy, tMaxX, tMaxY, prevWalls, hits, visited >>

\* keydown with e.code = "KeyF", between two frames.
\* The keydown handler with e.code === 'KeyF'.
keydownF ==
    /\ interactDoor
    /\ UNCHANGED << grids, player, pitch, pc, zBuffer, strip, rayVars, hitIdx,
                    doorHits, wallSegments, allDoorHits, drawn, frameHits,
                    lastMove, ticks >>

KeyF ==
    /\ pc = "idle"
    /\ UNCHANGED calc
    /\ keydownF

\* draw() up to the column loop: the z-buffer reset.
\* The start of draw() without this.zBuffer.fill(Infinity).
DrawBeginNoReset ==
    /\ pc = "idle"
    /\ UNCHANGED calc
    /\ allDoorHits' = << >>
    /\ wallSegments' = EmptySegments
    /\ drawn' = << >>
    /\ frameHits' = EmptySegments
    /\ strip' = 0
    /\ pc' = "strip"
    /\ UNCHANGED << grids, doors, player, pitch, zBuffer, rayVars, hitIdx,
                    doorHits, lastToggle, lastMove, ticks >>

drawBegin ==
    /\ pc = "idle"
    /\ zBuffer' = [sx \in 0 .. displayWidth - 1 |-> QInfinity]
    /\ allDoorHits' = << >>
    /\ wallSegments' = EmptySegments
    /\ drawn' = << >>
    /\ frameHits' = EmptySegments
    /\ strip' = 0
    /\ pc' = "strip"
    /\ UNCHANGED << grids, doors, player, pitch, rayVars, hitIdx, doorHits,
                    lastToggle, lastMove, ticks >>

DrawBegin == drawBegin /\ UNCHANGED calc

\* The head of the column loop, down to the DDA loop.
StripSetup ==
    /\ pc = "strip"
    /\ UNCHANGED calc
    /\ cx' = startCellX
    /\ cy' = startCellY
    /\ tMaxX' = tMaxX0(strip)
    /\ tMaxY' = tMaxY0(strip)
    /\ prevWalls' = [level \in 0 .. NumLevels - 1 |-> startPrevWall(level)]
    /\ hits' = << >>
    /\ visited' = << >>
    /\ wallSegments' = [wallSegments EXCEPT ![strip] = << >>]
    /\ pc' = "dda"
    /\ UNCHANGED << grids, doors, player, pitch, zBuffer, strip, hitIdx,
                    doorHits, allDoorHits, drawn, frameHits, lastToggle,
                    lastMove, ticks >>

\* One iteration of the DDA loop.
DDAStep ==
    /\ pc = "dda"
    /\ UNCHANGED calc
    /\ LET crossVertical == TLess(tMaxX, tMaxY)
           crossDist == IF crossVertical THEN tMaxX ELSE tMaxY
           nx == IF crossVertical THEN cx + stepX(strip) ELSE cx
           ny == IF crossVertical THEN cy ELSE cy + stepY(strip)
       IN  /\ cx' = nx
           /\ cy' = ny
           /\ tMaxX' = IF crossVertical THEN TAdd(tMaxX, tDeltaX(strip))
                       ELSE tMaxX
           /\ tMaxY' = IF crossVertical THEN tMaxY
                       ELSE TAdd(tMaxY, tDeltaY(strip))
           /\ visited' = Append(visited, [cx |-> nx, cy |-> ny,
                                          dist |-> crossDist,
                                          vertical |-> crossVertical])
           /\ IF outOfMap(nx, ny)
              THEN /\ pc' = "sort"
                   /\ UNCHANGED << hits, prevWalls >>
              ELSE /\ hits' = hits \o allLevelHits(0, nx, ny, cx, cy, crossDist,
                                                   crossVertical)
                   /\ prevWalls' =
                          [level \in 0 .. NumLevels - 1 |->
                              nextPrevWall(cellAt(nx, ny, level),
                                           nx + ny * MAP_WIDTH)]
                   /\ pc' = IF stopAtWall(nx, ny) THEN "sort" ELSE "dda"
    /\ UNCHANGED << grids, doors, player, pitch, zBuffer, strip, hitIdx,
                    doorHits, wallSegments, allDoorHits, drawn, frameHits,
                    lastToggle,
                    lastMove, ticks >>

\* No hit is taken for a door hit.
hitIsDoorNever(hit) == FALSE

\* const hitIsDoor = Raycaster.isDoor(hit.type)
hitIsDoor(hit) == isDoor(hit.type)

\* hits.sort(...)
SortHits ==
    /\ pc = "sort"
    /\ UNCHANGED calc
    /\ hits' = sortHits(hits)
    /\ hitIdx' = 1
    /\ doorHits' = << >>
    /\ frameHits' = [frameHits EXCEPT ![strip] = sortHits(hits)]
    /\ pc' = "pass1"
    /\ UNCHANGED << grids, doors, player, pitch, zBuffer, strip, cx, cy, tMaxX,
                    tMaxY, prevWalls, visited, wallSegments, allDoorHits,
                    drawn, lastToggle,
                    lastMove, ticks >>

\* PASS 1, one hit: a door hit is deferred, a wall hit is projected, written
\* to the z-buffer and drawn.
Pass1Hit ==
    /\ pc = "pass1"
    /\ UNCHANGED calc
    /\ hitIdx <= Len(hits)
    /\ LET hit == hits[hitIdx]
           cd == correctDist(strip, hit.dist)
           yStart == spanStart(strip, hit)
           yEnd == spanEnd(strip, hit)
       IN  IF hitIsDoor(hit)
           THEN /\ doorHits' = Append(doorHits, [hit |-> hit, strip |-> strip])
                /\ UNCHANGED << zBuffer, wallSegments, drawn >>
           ELSE IF offScreen(yStart, yEnd)
           THEN UNCHANGED << doorHits, zBuffer, wallSegments, drawn >>
           ELSE /\ zBuffer' = IF reachesHorizon(yEnd)
                              THEN zWrite(zBuffer, strip, cd) ELSE zBuffer
                /\ IF yEnd > yStart
                   THEN /\ drawn' = Append(drawn,
                               drawImage("wall", strip, hit, yStart, yEnd))
                        /\ wallSegments' =
                               [wallSegments EXCEPT ![strip] =
                                   Append(@, [dist |-> cd, yStart |-> yStart,
                                              yEnd |-> yEnd])]
                   ELSE UNCHANGED << wallSegments, drawn >>
                /\ UNCHANGED doorHits
    /\ hitIdx' = hitIdx + 1
    /\ UNCHANGED << grids, doors, player, pitch, pc, strip, rayVars,
                    allDoorHits, frameHits, lastToggle,
                    lastMove, ticks >>

\* The end of the column loop body: allDoorHits.push(...doorHits).
StripEnd ==
    /\ pc = "pass1"
    /\ UNCHANGED calc
    /\ hitIdx > Len(hits)
    /\ allDoorHits' = allDoorHits \o doorHits
    /\ strip' = strip + 1
    /\ pc' = IF strip + 1 < NumRays THEN "strip" ELSE "sprites"
    /\ UNCHANGED << grids, doors, player, pitch, zBuffer, rayVars, hitIdx,
                    doorHits, wallSegments, drawn, frameHits, lastToggle,
                    lastMove, ticks >>

\* this.drawSprites(ctx)
DrawSprites ==
    /\ pc = "sprites"
    /\ UNCHANGED calc
    /\ drawn' = drawn \o spriteDraws(sortSprites(sprites), 1, zBuffer)
    /\ hitIdx' = 1
    /\ pc' = "pass2"
    /\ UNCHANGED << grids, doors, player, pitch, zBuffer, strip, rayVars,
                    doorHits, wallSegments, allDoorHits, frameHits,
                    lastToggle,
                    lastMove, ticks >>

\* PASS 2, one deferred door hit.
Pass2Door ==
    /\ pc = "pass2"
    /\ UNCHANGED calc
    /\ hitIdx <= Len(allDoorHits)
    /\ LET hit == allDoorHits[hitIdx].hit
           st == allDoorHits[hitIdx].strip
           cd == correctDist(st, hit.dist)
           yStart == spanStart(st, hit)
           yEnd == spanEnd(st, hit)
           clip == clipDoor(wallSegments[st], 1, cd, yStart, yEnd)
       IN  IF offScreen(yStart, yEnd) \/ clip.yEnd <= clip.yStart
           THEN UNCHANGED drawn
           ELSE drawn' = Append(drawn,
                    drawImage("door", st, hit, clip.yStart, clip.yEnd))
    /\ hitIdx' = hitIdx + 1
    /\ UNCHANGED << grids, doors, player, pitch, pc, zBuffer, strip, rayVars,
                    doorHits, wallSegments, allDoorHits, frameHits,
                    lastToggle,
                    lastMove, ticks >>

\* The rest of draw(): the frame is done.
drawEnd ==
    /\ pc = "pass2"
    /\ hitIdx > Len(allDoorHits)
    /\ pc' = "idle"
    /\ UNCHANGED << grids, doors, player, pitch, zBuffer, strip, rayVars,
                    hitIdx, doorHits, wallSegments, allDoorHits, drawn,
                    frameHits, lastToggle, lastMove, ticks >>

DrawEnd == drawEnd /\ UNCHANGED calc

Next ==
    \/ KeyF
    \/ DrawBegin
    \/ StripSetup
    \/ DDAStep
    \/ SortHits
    \/ Pass1Hit
    \/ StripEnd
    \/ DrawSprites
    \/ Pass2Door
    \/ DrawEnd

Spec == Init /\ [][Next]_vars


(***************************************************************************)
(* Game.update, one call with the keys in ks held down.  Positions stay    *)
(* whole numbers for the headings along an axis, the ones movement starts  *)
(* from here; ArrowLeft and ArrowRight, which turn the player by 0.05 rad, *)
(* are never held.                                                         *)
(***************************************************************************)
KeySets ==
    { {}, { "KeyW" }, { "KeyS" }, { "KeyA" }, { "KeyD" }, { "KeyW", "KeyA" },
      { "Space" }, { "PageUp" }, { "PageDown" } }

\* Math.cos(rot) * speed and Math.sin(rot) * speed.
cosSpeed == (player.rot[1] * moveSpeed) \div Fn

sinSpeed == (player.rot[2] * moveSpeed) \div Fn

moveDX(ks) ==
    (IF "KeyW" \in ks THEN cosSpeed ELSE 0)
    - (IF "KeyS" \in ks THEN cosSpeed ELSE 0)
    - (IF "KeyA" \in ks THEN sinSpeed ELSE 0)
    + (IF "KeyD" \in ks THEN sinSpeed ELSE 0)

moveDY(ks) ==
    (IF "KeyS" \in ks THEN sinSpeed ELSE 0)
    - (IF "KeyW" \in ks THEN sinSpeed ELSE 0)
    - (IF "KeyA" \in ks THEN cosSpeed ELSE 0)
    + (IF "KeyD" \in ks THEN cosSpeed ELSE 0)

\* if (!this.isWall(newX, this.player.y)) this.player.x = newX
movedX(ks) ==
    IF isWall(player.x + moveDX(ks), player.y)
    THEN player.x ELSE player.x + moveDX(ks)

\* if (!this.isWall(this.player.x, newY)) this.player.y = newY
movedY(ks) ==
    IF isWall(movedX(ks), player.y + moveDY(ks))
    THEN player.y ELSE player.y + moveDY(ks)

pitchAfter(ks) ==
    LET up == IF "PageUp" \in ks
              THEN Min(pitch + pitchStep, maxKeyPitch) ELSE pitch
    IN  IF "PageDown" \in ks THEN Max(up - pitchStep, -maxKeyPitch) ELSE up

\* The jump test without its height condition: Space restarts the jump at
\* any height.
fallVZ2AnyHeight(ks) ==
    (IF "Space" \in ks THEN 2 * jumpStrength ELSE player.vz2) - 1

\* Twice velocityZ once the jump test and gravity = 0.5 have applied.
fallVZ2(ks) ==
    (IF "Space" \in ks /\ player.z2 <= 2 * (groundZ + 1)
     THEN 2 * jumpStrength ELSE player.vz2) - 1

landed(ks) == player.z2 + fallVZ2(ks) <= 2 * groundZ

\* update() with the keys of ks held down.
updateWith(ks) ==
    /\ player' = [player EXCEPT
           !.x = movedX(ks),
           !.y = movedY(ks),
           !.z2 = IF landed(ks) THEN 2 * groundZ
                  ELSE player.z2 + fallVZ2(ks),
           !.vz2 = IF landed(ks) THEN 0 ELSE fallVZ2(ks)]
    /\ pitch' = pitchAfter(ks)
    /\ lastMove' = [fromX |-> player.x, fromY |-> player.y,
                    dx |-> moveDX(ks), dy |-> moveDY(ks)]
    /\ ticks' = ticks + 1
    /\ UNCHANGED << grids, doors, pc, zBuffer, strip, rayVars, hitIdx,
                    doorHits, wallSegments, allDoorHits, drawn, frameHits,
                    lastToggle >>

update == \E ks \in KeySets : updateWith(ks)

Update ==
    /\ pc = "idle"
    /\ UNCHANGED calc
    /\ ticks < MaxUpdates
    /\ update

\* The headings whose steps are whole numbers.
MoveHeadings ==
    { h \in Headings :
        (h[1] * moveSpeed) % Fn = 0 /\ (h[2] * moveSpeed) % Fn = 0 }

\* Where movement starts: the game's start, the gap in the west border
\* close to the map's edge, in front of the door of cell (2, 3) at the range
\* of the F key, and right at that door.
MoveStarts == { <<160, 160>>, <<6, 160>>, <<160, 144>>, <<160, 186>> }

MoveInit ==
    /\ grids = InitGrids
    /\ \E f \in [DoorKeys -> { "unset", "open", "closed" }] :
           doors = [k \in 0 .. MAP_WIDTH * MAP_HEIGHT - 1 |->
                       IF k \in DoorKeys THEN f[k] ELSE "unset"]
    /\ \E xy \in MoveStarts, rot \in MoveHeadings :
           player = [x |-> xy[1], y |-> xy[2], z2 |-> 2 * groundZ, vz2 |-> 0,
                     rot |-> rot]
    /\ pitch = 0
    /\ ~isWall(player.x, player.y)
    /\ pc = "idle"
    /\ zBuffer = [sx \in 0 .. displayWidth - 1 |-> QInfinity]
    /\ strip = 0
    /\ cx = 0 /\ cy = 0 /\ tMaxX = Infinity /\ tMaxY = Infinity
    /\ prevWalls = NoRay
    /\ hits = << >> /\ visited = << >> /\ hitIdx = 1 /\ doorHits = << >>
    /\ wallSegments = EmptySegments
    /\ allDoorHits = << >>
    /\ drawn = << >>
    /\ frameHits = EmptySegments
    /\ lastToggle = -1
    /\ lastMove = NoMove
    /\ ticks = 0
    /\ calc = NoCalc

MoveNext ==
    \/ Update
    \/ KeyF

MoveSpec == MoveInit /\ [][MoveNext]_vars

(***************************************************************************)
(* The frame loop.  Game.start calls run, and run calls update(), then     *)
(* draw(), then asks for the next animation frame.  A callback of the      *)
(* browser (a frame callback or a keydown handler) starts only when no     *)
(* other callback is running; calc.phase tells where run is: "waiting"     *)
(* between callbacks, "updated" between update() and draw(), "drawing"     *)
(* inside draw().                                                          *)
(***************************************************************************)
MaxFrames == 2

RunPoses == { << (5 * TILE_SIZE) \div 2, (5 * TILE_SIZE) \div 2, << Fn, 0 >> >>,
              << (5 * TILE_SIZE) \div 2, (9 * TILE_SIZE) \div 4, << 0, -Fn >> >> }

Waiting == [op |-> "run", phase |-> "waiting"]

RunInit ==
    /\ grids = InitGrids
    /\ doors = [k \in 0 .. MAP_WIDTH * MAP_HEIGHT - 1 |-> "unset"]
    /\ \E pose \in RunPoses :
           player = [x |-> pose[1], y |-> pose[2], z2 |-> 2 * groundZ,
                     vz2 |-> 0, rot |-> pose[3]]
    /\ pitch = 0
    /\ pc = "idle"
    /\ zBuffer = [sx \in 0 .. displayWidth - 1 |-> QInfinity]
    /\ strip = 0
    /\ cx = 0 /\ cy = 0 /\ tMaxX = Infinity /\ tMaxY = Infinity
    /\ prevWalls = NoRay
    /\ hits = << >> /\ visited = << >> /\ hitIdx = 1 /\ doorHits = << >>
    /\ wallSegments = EmptySegments
    /\ allDoorHits = << >>
    /\ drawn = << >>
    /\ frameHits = EmptySegments
    /\ lastToggle = -1
    /\ lastMove = NoMove
    /\ ticks = 0
    /\ calc = Waiting

\* run(): this.update();
RunUpdate ==
    /\ calc.phase = "waiting"
    /\ pc = "idle"
    /\ ticks < MaxFrames
    /\ update
    /\ calc' = [calc EXCEPT !.phase = "updated"]

\* run(): this.draw(); the first statements of draw.
RunDrawBegin ==
    /\ calc.phase = "updated"
    /\ drawBegin
    /\ calc' = [calc EXCEPT !.phase = "drawing"]

\* draw() returns and run asks for the next animation frame.
RunDrawEnd ==
    /\ calc.phase = "drawing"
    /\ drawEnd
    /\ calc' = [calc EXCEPT !.phase = "waiting"]

RunKeyFAnytime ==
    /\ keydownF
    /\ UNCHANGED calc

\* A keydown event of KeyF, delivered between two callbacks.
RunKeyF ==
    /\ calc.phase = "waiting"
    /\ keydownF
    /\ UNCHANGED calc

RunNext ==
    \/ RunUpdate
    \/ RunKeyF
    \/ RunDrawBegin
    \/ StripSetup
    \/ DDAStep
    \/ SortHits
    \/ Pass1Hit
    \/ StripEnd
    \/ DrawSprites
    \/ Pass2Door
    \/ RunDrawEnd

RunSpec == RunInit /\ [][RunNext]_vars

(***************************************************************************)
(* Functions studied on their own.  The game is at rest as Game.init       *)
(* leaves it; calc holds the argument drawn and then the result.           *)
(***************************************************************************)
AtRest ==
    /\ grids = InitGrids
    /\ doors = [k \in 0 .. MAP_WIDTH * MAP_HEIGHT - 1 |-> "unset"]
    /\ player = [x |-> (5 * TILE_SIZE) \div 2, y |-> (5 * TILE_SIZE) \div 2,
                 z2 |-> 2 * groundZ, vz2 |-> 0, rot |-> << Fn, 0 >>]
    /\ pitch = 0
    /\ pc = "idle"
    /\ zBuffer = [sx \in 0 .. displayWidth - 1 |-> QInfinity]
    /\ strip = 0
    /\ cx = 0 /\ cy = 0 /\ tMaxX = Infinity /\ tMaxY = Infinity
    /\ prevWalls = NoRay
    /\ hits = << >> /\ visited = << >> /\ hitIdx = 1 /\ doorHits = << >>
    /\ wallSegments = EmptySegments
    /\ allDoorHits = << >>
    /\ drawn = << >>
    /\ frameHits = EmptySegments
    /\ lastToggle = -1
    /\ lastMove = NoMove
    /\ ticks = 0

(***************************************************************************)
(* Jumping on its own: update() after update() with the Space key held or  *)
(* released, long enough for a whole jump and the start of the next one.   *)
(***************************************************************************)
MaxJumpTicks == 50

JumpKeySets == { {}, { "Space" } }

JumpInit == AtRest /\ calc = [op |-> "jump"]

JumpUpdate ==
    /\ pc = "idle"
    /\ ticks < MaxJumpTicks
    /\ \E ks \in JumpKeySets : updateWith(ks)
    /\ UNCHANGED calc

JumpNext == JumpUpdate

JumpSpec == JumpInit /\ [][JumpNext]_vars

(***************************************************************************)
(* Raycaster.isVerticalDoor / isHorizontalDoor / isDoor applied to a code. *)
(***************************************************************************)
MaterialInit ==
    /\ AtRest
    /\ \E code \in 0 .. MaxCode : calc = [op |-> "code", code |-> code]

Classify ==
    /\ calc.op = "code"
    /\ calc' = [op |-> "classified", code |-> calc.code,
                vertical |-> isVerticalDoor(calc.code),
                horizontal |-> isHorizontalDoor(calc.code),
                door |-> isDoor(calc.code),
                positive |-> calc.code > 0]
    /\ UNCHANGED gameVars

MaterialNext == Classify

MaterialSpec == MaterialInit /\ [][MaterialNext]_vars

(***************************************************************************)
(* The projected height of a wall one tile high at the correct distance    *)
(* n / DistDen.                                                            *)
(***************************************************************************)
\* A height that grows with the distance: the quotient upside down.
stripScreenHeightInverted(screenDistance, distN, tileSize) ==
    Floor(2 * distN * tileSize + screenDistance * DistDen,
          2 * screenDistance * DistDen)

\* Raycaster.stripScreenHeight:
\*   Math.floor(screenDistance / correctDistance * tileSize + 0.5)
stripScreenHeight(screenDistance, distN, tileSize) ==
    Floor(2 * screenDistance * tileSize * DistDen + distN, 2 * distN)

\* game.js: wallH = Math.floor(this.viewDist / correctDist * this.TILE_SIZE)
wallH(distN) == Floor(viewDist * TILE_SIZE * DistDen, distN)

\* part_000: wallBottom - wallTop = (levelTop - levelBottom) * projScale,
\* with projScale = viewDist / correctDist; a rational.
projectedHeight(distN) == [n |-> TILE_SIZE * viewDist * DistDen, d |-> distN]

HeightInit ==
    /\ AtRest
    /\ \E n1, n2 \in 1 .. MaxDistN :
           calc = [op |-> "distances", n1 |-> n1, n2 |-> n2]

Project ==
    /\ calc.op = "distances"
    /\ calc' = [op |-> "projected", n1 |-> calc.n1, n2 |-> calc.n2,
                strip1 |-> stripScreenHeight(viewDist, calc.n1, TILE_SIZE),
                strip2 |-> stripScreenHeight(viewDist, calc.n2, TILE_SIZE),
                wallH1 |-> wallH(calc.n1),
                wallH2 |-> wallH(calc.n2),
                exact1 |-> projectedHeight(calc.n1),
                exact2 |-> projectedHeight(calc.n2)]
    /\ UNCHANGED gameVars

HeightNext == Project

HeightSpec == HeightInit /\ [][HeightNext]_vars

(***************************************************************************)
(* The wall-top scan of one screen row with span batching: the pixels are  *)
(* tested left to right, a span opens at the first pixel that passes the   *)
(* occupancy test and is filled, with one fillRect, at the first pixel     *)
(* that fails it or at the end of the row.  calc.occ is the set of pixels  *)
(* that pass the test, calc.spanStart the open span's first pixel or -1,   *)
(* calc.spans the fills issued: pixels x0 .. x1 - 1 each.                  *)
(***************************************************************************)
NoSpan == -1

fillSpan(spans, start, x) ==
    IF start = NoSpan THEN spans
    ELSE Append(spans, [x0 |-> start, x1 |-> x])

\* The end of the row without the fill of the span still open.
rowEndSpansNoFlush(spans, start) == spans

rowEndSpans(spans, start) == fillSpan(spans, start, RowWidth)

SpanInit ==
    /\ AtRest
    /\ \E occ \in SUBSET (0 .. RowWidth - 1) :
           calc = [op |-> "row", occ |-> occ, x |-> 0, spanStart |-> NoSpan,
                   spans |-> << >>]

ScanPixel ==
    /\ calc.op = "row"
    /\ calc.x < RowWidth
    /\ calc' = IF calc.x \in calc.occ
               THEN [calc EXCEPT !.x = calc.x + 1,
                                 !.spanStart = IF calc.spanStart = NoSpan
                                               THEN calc.x
                                               ELSE calc.spanStart]
               ELSE [calc EXCEPT !.x = calc.x + 1,
                                 !.spanStart = NoSpan,
                                 !.spans = fillSpan(calc.spans, calc.spanStart,
                                                    calc.x)]
    /\ UNCHANGED gameVars

RowEnd ==
    /\ calc.op = "row"
    /\ calc.x = RowWidth
    /\ calc' = [calc EXCEPT !.op = "rowDone",
                            !.spanStart = NoSpan,
                            !.spans = rowEndSpans(calc.spans, calc.spanStart)]
    /\ UNCHANGED gameVars

SpanNext == ScanPixel \/ RowEnd

SpanSpec == SpanInit /\ [][SpanNext]_vars

(***************************************************************************)
(* The slope pass: one screen column is marched along its ray in steps of  *)
(* stepSize; at every step over a slope the surface is drawn from its row  *)
(* down to the ground's row, no lower than the runs drawn so far.          *)
(* calc.cameraZ2 and calc.horizon2 are twice cameraZ and horizon, calc.k   *)
(* the step, calc.minScreenYDrawn the running minimum, calc.runs the       *)
(* fillRect calls issued: rows drawTop .. drawBottom - 1 each.             *)
(***************************************************************************)
stepSize == TILE_SIZE \div 4

\* getHeightAt(worldX, worldY) over the points of a ray: 0 off the slopes.
SlopeHeights == { 0, TILE_SIZE \div 4, TILE_SIZE, 2 * TILE_SIZE }

\* Math.floor(horizon + (cameraZ - height) * projScale) at step k, with
\* projScale = viewDist / correctDist and correctDist = k * stepSize.
marchScreenY(c, k, height) ==
    Floor(c.horizon2 * k * stepSize + (c.cameraZ2 - 2 * height) * viewDist,
          2 * k * stepSize)

slopeScreenY(c, height) == marchScreenY(c, c.k, height)

groundScreenY(c) == marchScreenY(c, c.k, 0)

drawTop(c, height) == Max(0, slopeScreenY(c, height))

\* The run's bottom without the running minimum: down to the ground's row.
drawBottomNoMin(c) == Min(groundScreenY(c), displayHeight)

drawBottom(c) ==
    Min(Min(c.minScreenYDrawn, groundScreenY(c)), displayHeight)

marchDraws(c, height) ==
    /\ height > 0
    /\ drawTop(c, height) < drawBottom(c)
    /\ drawTop(c, height) < c.minScreenYDrawn

MarchInit ==
    /\ AtRest
    /\ \E n \in JumpTicks, p \in Pitches :
           calc = [op |-> "march",
                   cameraZ2 |-> TILE_SIZE + JumpZ2(n),
                   horizon2 |-> displayHeight + 2 * p,
                   k |-> 1,
                   minScreenYDrawn |-> displayHeight,
                   runs |-> << >>]

MarchStep ==
    /\ calc.op = "march"
    /\ calc.k <= MarchSteps
    /\ \E height \in SlopeHeights :
           calc' = IF marchDraws(calc, height)
                   THEN [calc EXCEPT
                           !.k = calc.k + 1,
                           !.minScreenYDrawn =
                               Min(calc.minScreenYDrawn, drawTop(calc, height)),
                           !.runs = Append(calc.runs,
                               [top |-> drawTop(calc, height),
                                bottom |-> drawBottom(calc),
                                ground |-> groundScreenY(calc),
                                minBefore |-> calc.minScreenYDrawn])]
                   ELSE [calc EXCEPT !.k = calc.k + 1]
    /\ UNCHANGED gameVars

MarchEnd ==
    /\ calc.op = "march"
    /\ calc.k > MarchSteps
    /\ calc' = [calc EXCEPT !.op = "marched"]
    /\ UNCHANGED gameVars

MarchNext == MarchStep \/ MarchEnd

MarchSpec == MarchInit /\ [][MarchNext]_vars

(***************************************************************************)
(* The slope layer and heightAt.  maps.js is not part of the sources; the  *)
(* layer below has one cell of every orientation, and heightAt is taken    *)
(* at a point of a cell given by its offsets from the cell's low edges,    *)
(* both edges included.                                                    *)
(***************************************************************************)
SLOPE_TYPE_NONE == 0

SLOPE_TYPE_WEST_EAST == 1

SLOPE_TYPE_EAST_WEST == 2

SLOPE_TYPE_NORTH_SOUTH == 3

SLOPE_TYPE_SOUTH_NORTH == 4

g_map_slopes(x, y) ==
    CASE <<x, y>> = <<1, 2>> -> SLOPE_TYPE_WEST_EAST
      [] <<x, y>> = <<3, 2>> -> SLOPE_TYPE_EAST_WEST
      [] <<x, y>> = <<2, 1>> -> SLOPE_TYPE_NORTH_SOUTH
      [] <<x, y>> = <<4, 3>> -> SLOPE_TYPE_SOUTH_NORTH
      [] OTHER -> SLOPE_TYPE_NONE

\* Linear interpolation from 0 at offset 0 to tileSize at offset tileSize.
interpolate(offset) == (offset * TILE_SIZE) \div TILE_SIZE

\* The interpolation along the other axis of the cell.
slopeHeightTransposed(slopeType, ox, oy) ==
    CASE slopeType = SLOPE_TYPE_WEST_EAST -> interpolate(oy)
      [] slopeType = SLOPE_TYPE_EAST_WEST -> interpolate(TILE_SIZE - oy)
      [] slopeType = SLOPE_TYPE_NORTH_SOUTH -> interpolate(ox)
      [] slopeType = SLOPE_TYPE_SOUTH_NORTH -> interpolate(TILE_SIZE - ox)
      [] OTHER -> 0

slopeHeight(slopeType, ox, oy) ==
    CASE slopeType = SLOPE_TYPE_WEST_EAST -> interpolate(ox)
      [] slopeType = SLOPE_TYPE_EAST_WEST -> interpolate(TILE_SIZE - ox)
      [] slopeType = SLOPE_TYPE_NORTH_SOUTH -> interpolate(oy)
      [] slopeType = SLOPE_TYPE_SOUTH_NORTH -> interpolate(TILE_SIZE - oy)
      [] OTHER -> 0

heightAt(cellX, cellY, ox, oy) ==
    slopeHeight(g_map_slopes(cellX, cellY), ox, oy)

SlopeOffsets == { 0, TILE_SIZE \div 4, TILE_SIZE \div 2, TILE_SIZE }

SlopeInit ==
    /\ AtRest
    /\ \E x \in 0 .. MAP_WIDTH - 1, y \in 0 .. MAP_HEIGHT - 1 :
           \E ox, oy \in SlopeOffsets :
               calc = [op |-> "point", cellX |-> x, cellY |-> y,
                       ox |-> ox, oy |-> oy]

HeightAt ==
    /\ calc.op = "point"
    /\ calc' = [op |-> "height", cellX |-> calc.cellX, cellY |-> calc.cellY,
                ox |-> calc.ox, oy |-> calc.oy,
                slopeType |-> g_map_slopes(calc.cellX, calc.cellY),
                height |-> heightAt(calc.cellX, calc.cellY, calc.ox, calc.oy)]
    /\ UNCHANGED gameVars

SlopeNext == HeightAt

SlopeSpec == SlopeInit /\ [][SlopeNext]_vars

(***************************************************************************)
(* Properties.                                                             *)
(***************************************************************************)
cellKeyOf(x, y) == x + y * MAP_WIDTH

\* The centre of cell (x, y), a point isWall can be asked about.
cellCentreX(x) == x * TILE_SIZE + TILE_SIZE \div 2

InFrame == pc # "idle"

\* The hits list of the current column is in scope.
Casting == pc \in { "dda", "sort", "pass1" }

\* The traversal of the current column is over.
TraversalDone == pc \in { "sort", "pass1" }

\* The indices of the visited cells that are the open door interactDoor last
\* toggled.
toggledOpenVisits ==
    { i \in 1 .. Len(visited) :
        /\ ~outOfMap(visited[i].cx, visited[i].cy)
        /\ cellKeyOf(visited[i].cx, visited[i].cy) = lastToggle
        /\ doorOpen(lastToggle) }

C2_HitCellConsistent ==
    Casting =>
        /\ \A j \in 1 .. Len(hits) :
               /\ ~outOfMap(hits[j].wallX, hits[j].wallY)
               /\ cellAt(hits[j].wallX, hits[j].wallY, hits[j].level) # 0
               /\ hits[j].type
                      = cellAt(hits[j].wallX, hits[j].wallY, hits[j].level)
               /\ isDoor(hits[j].type) =>
                      /\ ~doorOpen(cellKeyOf(hits[j].wallX, hits[j].wallY))
                      /\ (pc = "pass1" /\ j < hitIdx) =>
                             \E d \in 1 .. Len(doorHits) :
                                 doorHits[d].hit = hits[j]
        /\ \A i \in 1 .. Len(drawn) :
               drawn[i].kind = "wall" => ~isDoor(drawn[i].id)

\* The opaque pass has gone past a door hit and a wall hit of one column.
C2_Witness ==
    /\ pc = "pass1"
    /\ \E j \in 1 .. Len(hits) : j < hitIdx /\ isDoor(hits[j].type)
    /\ \E j \in 1 .. Len(hits) :
           j < hitIdx /\ ~isDoor(hits[j].type) /\ hits[j].face = "back"
    /\ \E j \in 1 .. Len(hits) : hits[j].level = 1

\* C3 as stated: the crossing distances of the cells a traversal visits are
\* strictly increasing, grid corners included.
C3_Original ==
    \A i \in 1 .. Len(visited) - 1 : visited[i].dist < visited[i + 1].dist

\* C3 amended: the first crossing distance is not negative and the crossing
\* distances never decrease; two consecutive cells have the same distance
\* only across a grid corner, where the ray crosses a horizontal and then a
\* vertical grid line at one point, and the cell after that is farther.
C3_CrossDistMonotone ==
    /\ \A i \in 1 .. Len(visited) : visited[i].dist >= 0
    /\ \A i \in 1 .. Len(visited) - 1 :
           /\ visited[i].dist <= visited[i + 1].dist
           /\ visited[i].dist = visited[i + 1].dist =>
                  ~visited[i].vertical /\ visited[i + 1].vertical
    /\ \A i \in 1 .. Len(visited) - 2 : visited[i].dist < visited[i + 2].dist

\* A traversal has gone through a grid corner and on to a farther cell.
C3_Witness ==
    \E i \in 1 .. Len(visited) - 2 :
        /\ visited[i].dist = visited[i + 1].dist
        /\ visited[i + 1].dist < visited[i + 2].dist

\* C4: once a column's hits are sorted their distances never increase along
\* the list, and of two adjacent hits at one distance the one on the higher
\* level comes first.
C4_SortedFarToNear ==
    pc = "pass1" =>
        \A j \in 1 .. Len(hits) - 1 :
            /\ hits[j].dist >= hits[j + 1].dist
            /\ hits[j].dist = hits[j + 1].dist =>
                   hits[j].level >= hits[j + 1].level

\* A sorted column holds hits at different distances and two adjacent hits
\* at one distance on different levels.
C4_Witness ==
    /\ pc = "pass1"
    /\ \E j \in 1 .. Len(hits) - 1 : hits[j].dist > hits[j + 1].dist
    /\ \E j \in 1 .. Len(hits) - 1 :
           /\ hits[j].dist = hits[j + 1].dist
           /\ hits[j].level > hits[j + 1].level

\* Exact comparisons of a sprite's distance sqrt(d2) with a z-buffer value
\* q, by squaring q in lowest terms.
sqLess(d2, q) ==
    q.d = 0 \/ LET g == GCD(q.n, q.d)
               IN  d2 * (q.d \div g) * (q.d \div g) < (q.n \div g) * (q.n \div g)

sqGreater(d2, q) ==
    q.d # 0 /\ LET g == GCD(q.n, q.d)
               IN  d2 * (q.d \div g) * (q.d \div g) > (q.n \div g) * (q.n \div g)

spriteDrawn(sp) ==
    \E i \in 1 .. Len(drawn) : drawn[i].kind = "sprite" /\ drawn[i].id = sp.id

\* The sprites the occlusion test is reached for with a column of the
\* screen as centre column.
onScreenSprites ==
    { i \in 1 .. Len(sprites) :
        /\ ~spriteCulled(sprites[i])
        /\ spriteCenterX(sprites[i]) >= 0
        /\ spriteCenterX(sprites[i]) < displayWidth }

\* C5: after the sprite pass, a sprite whose distance exceeds the z-buffer
\* value at its centre column has not been drawn and one whose distance is
\* smaller has been drawn, whatever the z-buffer holds at other columns; a
\* sprite that was drawn has a centre column on the screen.
C5_SpriteOcclusion ==
    pc = "pass2" =>
        /\ \A i \in onScreenSprites :
               LET sp == sprites[i]
                   z == zBuffer[spriteCenterX(sp)]
               IN  /\ sqGreater(spriteDist2(sp), z) => ~spriteDrawn(sp)
                   /\ sqLess(spriteDist2(sp), z) => spriteDrawn(sp)
        /\ \A i \in 1 .. Len(sprites) :
               spriteDrawn(sprites[i]) => i \in onScreenSprites

\* One sprite was rejected because a wall at its centre column is nearer,
\* and another was drawn although the z-buffer holds a nearer wall at some
\* other column.
C5_Witness ==
    /\ pc = "pass2"
    /\ \E i \in onScreenSprites :
           /\ sqGreater(spriteDist2(sprites[i]),
                        zBuffer[spriteCenterX(sprites[i])])
           /\ ~spriteDrawn(sprites[i])
    /\ \E i \in onScreenSprites :
           /\ spriteDrawn(sprites[i])
           /\ \E sx \in DOMAIN zBuffer :
                  sqGreater(spriteDist2(sprites[i]), zBuffer[sx])

\* The door hits the deferred pass has handled.
handledDoors == { j \in 1 .. Len(allDoorHits) : pc = "pass2" /\ j < hitIdx }

\* The rows of door hit j's projected span that no nearer wall segment of
\* its column covers.
uncoveredRows(j) ==
    LET hit == allDoorHits[j].hit
        st == allDoorHits[j].strip
    IN  { r \in spanStart(st, hit) .. spanEnd(st, hit) - 1 :
            \A k \in 1 .. Len(wallSegments[st]) :
                LET seg == wallSegments[st][k]
                IN  QLess(seg.dist, correctDist(st, hit.dist)) =>
                        r < seg.yStart \/ r >= seg.yEnd }

doorDraws(j) ==
    { i \in 1 .. Len(drawn) :
        /\ drawn[i].kind = "door"
        /\ drawn[i].col = allDoorHits[j].strip
        /\ drawn[i].tau = allDoorHits[j].hit.dist
        /\ drawn[i].level = allDoorHits[j].hit.level
        /\ drawn[i].id = allDoorHits[j].hit.type }

\* C6: no row of a drawn door span lies inside a wall segment recorded for
\* its column at a smaller correct distance; a door all of whose rows are
\* covered is not drawn, and any other door is drawn over exactly its
\* uncovered rows.
C6_DoorClipping ==
    /\ \A i \in 1 .. Len(drawn) :
           drawn[i].kind = "door" =>
               /\ drawn[i].yStart < drawn[i].yEnd
               /\ \A k \in 1 .. Len(wallSegments[drawn[i].col]) :
                      LET seg == wallSegments[drawn[i].col][k]
                      IN  QLess(seg.dist, drawn[i].dist) =>
                              \/ seg.yEnd <= drawn[i].yStart
                              \/ seg.yStart >= drawn[i].yEnd
    /\ \A j \in handledDoors :
           IF uncoveredRows(j) = {}
           THEN doorDraws(j) = {}
           ELSE \E i \in doorDraws(j) :
                    uncoveredRows(j) = drawn[i].yStart .. drawn[i].yEnd - 1

\* A door was drawn over fewer rows than its span has, a nearer wall
\* covering the others.
C6_Witness ==
    \E j \in handledDoors :
        /\ uncoveredRows(j) # {}
        /\ uncoveredRows(j) #
               spanStart(allDoorHits[j].strip, allDoorHits[j].hit)
                   .. spanEnd(allDoorHits[j].strip, allDoorHits[j].hit) - 1
        /\ doorDraws(j) # {}

\* The least of a set of distances, Infinity for the empty set.
QMin(S) ==
    IF S = {} THEN QInfinity
    ELSE CHOOSE q \in S : \A r \in S : ~QLess(r, q)

\* The correct distances of the first upTo hits of hs, cast for column st,
\* that are no door hits and whose clipped span bottom reaches the horizon.
horizonDists(st, hs, upTo) ==
    { correctDist(st, hs[j].dist) :
        j \in { k \in 1 .. Min(upTo, Len(hs)) :
                  /\ ~isDoor(hs[k].type)
                  /\ 2 * spanEnd(st, hs[k]) >= horizon2 } }

\* The same, leaving out the hits the opaque pass skips as entirely off the
\* screen.
writtenDists(st, hs, upTo) ==
    { correctDist(st, hs[j].dist) :
        j \in { k \in 1 .. Min(upTo, Len(hs)) :
                  /\ ~isDoor(hs[k].type)
                  /\ 2 * spanEnd(st, hs[k]) >= horizon2
                  /\ spanEnd(st, hs[k]) > 0
                  /\ spanStart(st, hs[k]) < displayHeight } }

OpaqueDone == pc \in { "sprites", "pass2" }

\* C7 as stated: after the opaque pass every z-buffer entry is the least
\* correct distance over the non-door hits of its strip whose clipped span
\* bottom reaches the horizon row, Infinity when there is none.
C7_Original ==
    OpaqueDone =>
        \A sx \in DOMAIN zBuffer :
            zBuffer[sx] = QMin(horizonDists(sx \div stripWidth,
                                            frameHits[sx \div stripWidth],
                                            Len(frameHits[sx \div stripWidth])))

\* What the opaque pass has made of column sx's entry so far.
zExpected(sx) ==
    LET st == sx \div stripWidth
    IN  IF OpaqueDone \/ st < strip
        THEN QMin(writtenDists(st, frameHits[st], Len(frameHits[st])))
        ELSE IF pc = "pass1" /\ st = strip
        THEN QMin(writtenDists(st, hits, hitIdx - 1))
        ELSE QInfinity

\* C7 amended: during and after the opaque pass every z-buffer entry is the
\* least correct distance over the non-door hits of its strip handled so
\* far that are not entirely off the screen and whose clipped span bottom
\* reaches the horizon row, Infinity when there is none; and no step of the
\* pass increases an entry.
C7_ZBufferMin ==
    /\ [](InFrame => \A sx \in DOMAIN zBuffer : zBuffer[sx] = zExpected(sx))
    /\ [][pc = "pass1" =>
            \A sx \in DOMAIN zBuffer : ~QLess(zBuffer[sx], zBuffer'[sx])]_vars

\* After the opaque pass one entry is the distance of the nearer of two
\* hits that qualify, and another is still Infinity although its strip has
\* wall hits, none of which qualifies.
C7_Witness ==
    /\ OpaqueDone
    /\ \E sx \in DOMAIN zBuffer :
           /\ zBuffer[sx] # QInfinity
           /\ \E q \in writtenDists(sx \div stripWidth,
                                    frameHits[sx \div stripWidth],
                                    Len(frameHits[sx \div stripWidth])) :
                  QLess(zBuffer[sx], q)
    /\ \E sx \in DOMAIN zBuffer :
           /\ zBuffer[sx] = QInfinity
           /\ \E j \in 1 .. Len(frameHits[sx \div stripWidth]) :
                  ~isDoor(frameHits[sx \div stripWidth][j].type)

drawRank(kind) ==
    CASE kind = "wall" -> 1
      [] kind = "sprite" -> 2
      [] kind = "door" -> 3

\* C8: the draw calls of a frame come in the order wall spans, sprites,
\* door spans; what the opaque pass draws is never a door, what the
\* deferred pass draws always is, and nothing but wall spans is drawn
\* before the sprite pass.
C8_DrawOrder ==
    /\ \A i \in 1 .. Len(drawn) - 1 :
           drawRank(drawn[i].kind) <= drawRank(drawn[i + 1].kind)
    /\ \A i \in 1 .. Len(drawn) :
           /\ drawn[i].kind = "wall" => ~isDoor(drawn[i].id)
           /\ drawn[i].kind = "door" => isDoor(drawn[i].id)
    /\ pc \in { "strip", "dda", "sort", "pass1", "sprites" } =>
           \A i \in 1 .. Len(drawn) : drawn[i].kind = "wall"

\* A frame has drawn wall spans, a sprite and a door span.
C8_Witness ==
    /\ pc = "idle"
    /\ \E i \in 1 .. Len(drawn) : drawn[i].kind = "wall"
    /\ \E i \in 1 .. Len(drawn) : drawn[i].kind = "sprite"
    /\ \E i \in 1 .. Len(drawn) : drawn[i].kind = "door"

\* A visited cell at which the traversal has to stop: inside the map, its
\* level 0 code that of a wall and no door, the camera at z <= 5.
stopCell(v) ==
    /\ v.cx >= 0 /\ v.cx < MAP_WIDTH /\ v.cy >= 0 /\ v.cy < MAP_HEIGHT
    /\ grids[0][v.cx + v.cy * MAP_WIDTH] > 0
    /\ grids[0][v.cx + v.cy * MAP_WIDTH] <= DoorMin
    /\ player.z2 <= 2 * SeeOverZ

leftMap(v) == v.cx < 0 \/ v.cx >= MAP_WIDTH \/ v.cy < 0 \/ v.cy >= MAP_HEIGHT

\* C9: while a column's traversal runs, no cell it has visited is outside
\* the map or a ground-level non-door wall seen from z <= 5; once it has
\* ended, its last cell is one of the two and no earlier cell is.
C9_TraversalStop ==
    /\ pc = "dda" =>
           \A i \in 1 .. Len(visited) :
               ~leftMap(visited[i]) /\ ~stopCell(visited[i])
    /\ TraversalDone =>
           /\ Len(visited) >= 1
           /\ leftMap(visited[Len(visited)]) \/ stopCell(visited[Len(visited)])
           /\ \A i \in 1 .. Len(visited) - 1 :
                  ~leftMap(visited[i]) /\ ~stopCell(visited[i])

\* From the ground a traversal went through a closed door's cell, stopped
\* at a wall behind it, and collected a hit for each.
C9_Witness ==
    /\ pc = "sort"
    /\ ~canSeeOverWalls
    /\ stopCell(visited[Len(visited)])
    /\ \E i \in 1 .. Len(visited) - 1 :
           /\ isDoor(cellAt(visited[i].cx, visited[i].cy, 0))
           /\ ~doorOpen(cellKeyOf(visited[i].cx, visited[i].cy))
           /\ \E j \in 1 .. Len(hits) :
                  /\ hits[j].wallX = visited[i].cx
                  /\ hits[j].wallY = visited[i].cy
                  /\ isDoor(hits[j].type)
    /\ \E j \in 1 .. Len(hits) :
           /\ hits[j].wallX = visited[Len(visited)].cx
           /\ hits[j].wallY = visited[Len(visited)].cy
           /\ hits[j].level = 0

\* The queries C10 is checked on: every cell of the map and a margin of two
\* around it, every level and one below and above.
QueryX == -2 .. MAP_WIDTH + 1

QueryY == -2 .. MAP_HEIGHT + 1

QueryLevel == -1 .. NumLevels

\* C10: cellAt returns 0 for every query with x, y or level out of range
\* and the stored code for every query in range.
C10_CellAtBounds ==
    \A x \in QueryX, y \in QueryY, z \in QueryLevel :
        IF /\ x >= 0 /\ x < MAP_WIDTH
           /\ y >= 0 /\ y < MAP_HEIGHT
           /\ z >= 0 /\ z < NumLevels
        THEN cellAt(x, y, z) = grids[z][x + y * MAP_WIDTH]
        ELSE cellAt(x, y, z) = 0

\* Two opposite corner points of a tile, as offsets from its origin.
TilePoints == { <<0, 0>>, <<TILE_SIZE - 1, TILE_SIZE - 1>> }

playerCellX == Floor(player.x, TILE_SIZE)

playerCellY == Floor(player.y, TILE_SIZE)

\* C11: for every cell of the map and the corner points of it, if the cell's
\* level 0 code is a door's then isWall is false exactly when the door map
\* marks the cell open, and true when it is closed or was never toggled;
\* otherwise isWall is true exactly when the code is greater than 0.
C11_DoorPassability ==
    \A x \in 0 .. MAP_WIDTH - 1, y \in 0 .. MAP_HEIGHT - 1 :
        \A o \in TilePoints :
            LET code == grids[0][x + y * MAP_WIDTH]
                blocked == isWall(x * TILE_SIZE + o[1], y * TILE_SIZE + o[2])
            IN  IF isDoor(code)
                THEN /\ blocked <=> doors[x + y * MAP_WIDTH] # "open"
                     /\ doors[x + y * MAP_WIDTH] \in { "closed", "unset" }
                            => blocked
                ELSE blocked <=> code > 0

\* The last update() moved the player from a neighbouring cell into the
\* cell of an open door, while another door of the map is closed.
C11_Witness ==
    /\ ticks >= 1
    /\ isDoor(grids[0][playerCellX + playerCellY * MAP_WIDTH])
    /\ doors[playerCellX + playerCellY * MAP_WIDTH] = "open"
    /\ Floor(lastMove.fromY, TILE_SIZE) # playerCellY
    /\ \E k \in DoorKeys : doors[k] = "closed"


\* World coordinates around and across the map's edges, on one axis.
ProbeCoords(cells) ==
    { -TILE_SIZE - 1, -TILE_SIZE, -1, 0, TILE_SIZE + TILE_SIZE \div 2,
      cells * TILE_SIZE - 1, cells * TILE_SIZE, (cells + 1) * TILE_SIZE }

onMap(x, y) ==
    /\ 0 <= x /\ x < MAP_WIDTH * TILE_SIZE
    /\ 0 <= y /\ y < MAP_HEIGHT * TILE_SIZE

\* C12: isWall answers true for every probed position outside the map's
\* rectangle, whatever the grid and the door map hold, and the player's
\* position is inside the map in every state that update() reaches.
C12_OffMapBlocked ==
    /\ \A x \in ProbeCoords(MAP_WIDTH), y \in ProbeCoords(MAP_HEIGHT) :
           ~onMap(x, y) => isWall(x, y)
    /\ onMap(player.x, player.y)

\* update() asked for a position left of the map and refused the move.
C12_Witness ==
    /\ ticks >= 1
    /\ lastMove.fromX + lastMove.dx < 0
    /\ player.x = lastMove.fromX
    /\ onMap(player.x, player.y)


\* The entries of the door map that a step changes.
changedDoors == { k \in DOMAIN doors : doors'[k] # doors[k] }

\* C13: every step leaves all grid levels as they were; a step changes at
\* most one entry of the door map, and when it changes one, that entry is
\* the key of the cell 1.5 tiles ahead of the player and the code that
\* cellAt gives for that cell at level 0 is a door's.
C13_InteractDoorFrame ==
    [][ /\ grids' = grids
        /\ DOMAIN doors' = DOMAIN doors
        /\ Cardinality(changedDoors) <= 1
        /\ \A k \in changedDoors :
               /\ k = interactCellX + interactCellY * MAP_WIDTH
               /\ isDoor(cellAt(interactCellX, interactCellY, 0))
               /\ isDoor(grids[0][k]) ]_vars

\* The F key closed an open door after the player had moved, and the
\* grid still holds the door's code there.
C13_Witness ==
    /\ lastToggle >= 0
    /\ ticks >= 1
    /\ doors[lastToggle] = "closed"
    /\ isDoor(grids[0][lastToggle])
    /\ lastToggle = interactCellX + interactCellY * MAP_WIDTH


\* C14: while a column is cast, no front-face hit on a vertical door
\* was entered across a horizontal grid line, and no front-face hit on a
\* horizontal door was entered across a vertical grid line.
C14_DoorHitOrientation ==
    Casting =>
        \A j \in 1 .. Len(hits) :
            hits[j].face = "front" =>
                /\ isVerticalDoor(hits[j].type) => ~hits[j].horiz
                /\ isHorizontalDoor(hits[j].type) => hits[j].horiz


Classified == calc.op = "classified"

\* C15 as stated: a classified code in 1..999 is positive and no door, one
\* in 1000..1500 is a vertical door, one above 1500 is a horizontal door,
\* none is both, and isDoor holds exactly for those that are one of them.
C15_Original ==
    Classified =>
        /\ (1 <= calc.code /\ calc.code <= 999) =>
               calc.positive /\ ~calc.door
        /\ (1000 <= calc.code /\ calc.code <= 1500) => calc.vertical
        /\ calc.code > 1500 => calc.horizontal
        /\ ~(calc.vertical /\ calc.horizontal)
        /\ calc.door <=> (calc.vertical \/ calc.horizontal)

\* C15: a classified code in 1..1000 is positive and no door, one in
\* 1001..1500 is a vertical door and no horizontal one, one above 1500
\* is a horizontal door and no vertical one, a code below 1 is neither, and
\* isDoor holds exactly for the codes that are one of the two.
C15_CodeRanges ==
    Classified =>
        /\ (1 <= calc.code /\ calc.code <= 1000) =>
               calc.positive /\ ~calc.door
        /\ (1001 <= calc.code /\ calc.code <= 1500) =>
               calc.vertical /\ ~calc.horizontal
        /\ calc.code > 1500 => calc.horizontal /\ ~calc.vertical
        /\ calc.code < 1 => ~calc.door /\ ~calc.positive
        /\ ~(calc.vertical /\ calc.horizontal)
        /\ calc.door <=> (calc.vertical \/ calc.horizontal)

\* Code 1000 was classified: positive, and no door of either kind.
C15_Witness ==
    /\ Classified
    /\ calc.code = 1000
    /\ calc.positive
    /\ ~calc.vertical /\ ~calc.horizontal /\ ~calc.door


Projected == calc.op = "projected"

\* C16 as stated: of two correct distances, the larger one has the
\* strictly smaller projected height, in stripScreenHeight's pixels too.
C16_Original ==
    (Projected /\ calc.n1 < calc.n2) =>
        /\ QLess(calc.exact2, calc.exact1)
        /\ calc.strip2 < calc.strip1

\* C16: of two correct distances, the larger one has the strictly smaller
\* projected height tileSize * viewDist / distance, and a height in whole
\* pixels (stripScreenHeight's rounding, wallH's floor) that is not larger.
C16_HeightMonotone ==
    (Projected /\ calc.n1 < calc.n2) =>
        /\ QLess(calc.exact2, calc.exact1)
        /\ calc.strip2 <= calc.strip1
        /\ calc.wallH2 <= calc.wallH1

\* Two different distances whose heights in whole pixels are the same,
\* and two whose heights differ.
C16_Witness ==
    /\ Projected
    /\ calc.n1 < calc.n2
    /\ calc.strip1 = calc.strip2
    /\ calc.wallH1 = calc.wallH2
    /\ calc.strip1 > 0
    /\ \E n \in 1 .. calc.n1 - 1 :
           stripScreenHeight(viewDist, n, TILE_SIZE) > calc.strip1


\* C17: after the sprite pass, no sprite that is at the camera's position,
\* at distance 0, has been drawn.
C17_ZeroDistanceSkipped ==
    pc = "pass2" =>
        \A i \in 1 .. Len(sprites) :
            spriteDist2(sprites[i]) = 0 => ~spriteDrawn(sprites[i])


\* Scenario A: the player where Game.init puts it, at the centre of cell
\* (2, 2), facing angle 0; (3, 2) and (4, 2) empty and (5, 2) a solid wall
\* at level 0; tile size 64.
ScenarioA ==
    /\ TILE_SIZE = 64
    /\ player.x = (5 * TILE_SIZE) \div 2
    /\ player.y = (5 * TILE_SIZE) \div 2
    /\ player.rot = << Fn, 0 >>
    /\ cellAt(3, 2, 0) = 0
    /\ cellAt(4, 2, 0) = 0
    /\ cellAt(5, 2, 0) > 0
    /\ ~isDoor(cellAt(5, 2, 0))

\* The columns at the centre of the screen: screenX = 0.
centreStrips == { st \in 0 .. NumRays - 1 : screenX(st) = 0 }

\* The front-face hits of column st on cell (5, 2) at level 0.
scenarioHits(st) ==
    { j \in 1 .. Len(frameHits[st]) :
        /\ frameHits[st][j].wallX = 5
        /\ frameHits[st][j].wallY = 2
        /\ frameHits[st][j].level = 0
        /\ frameHits[st][j].face = "front" }

\* hit.dist of a hit at ray-unit distance tau of an axis-aligned ray.
straightDist(st, tau) ==
    [n |-> tau * (Abs(dirX(st)) + Abs(dirY(st))), d |-> RayK(st)]

\* A distance within a quarter of a tile of 3 * 64 = 192.
about192(q) == 4 * Abs(q.n - 3 * 64 * q.d) <= 64 * q.d

\* C18 as stated: in Scenario A a centre column has strip angle 0 and a
\* hit on cell (5, 2) whose correct distance is its straight distance and
\* is about 192.
C18_Original ==
    (ScenarioA /\ OpaqueDone) =>
        \A st \in centreStrips :
            /\ dirX(st) = 1 /\ dirY(st) = 0
            /\ scenarioHits(st) # {}
            /\ \A j \in scenarioHits(st) :
                   LET tau == frameHits[st][j].dist
                   IN  /\ QEq(correctDist(st, tau), straightDist(st, tau))
                       /\ about192(correctDist(st, tau))

\* C18: in Scenario A a centre column has strip angle 0, its ray runs
\* along the heading, and it has a hit on cell (5, 2) whose correct
\* distance is its straight distance: 160 = 2.5 * 64, from the centre of
\* cell (2, 2) to the wall's face at x = 5 * 64.
C18_ScenarioA ==
    (ScenarioA /\ OpaqueDone) =>
        \A st \in centreStrips :
            /\ dirX(st) = 1 /\ dirY(st) = 0
            /\ scenarioHits(st) # {}
            /\ \A j \in scenarioHits(st) :
                   LET tau == frameHits[st][j].dist
                   IN  /\ QEq(correctDist(st, tau), straightDist(st, tau))
                       /\ QEq(correctDist(st, tau),
                              [n |-> 5 * TILE_SIZE, d |-> 2])

\* Scenario A was rendered: the centre column exists and has its hit on
\* cell (5, 2).
C18_Witness ==
    /\ ScenarioA
    /\ OpaqueDone
    /\ \E st \in centreStrips : scenarioHits(st) # {}


\* The pixels the fills issued so far cover.
coveredPixels ==
    UNION { calc.spans[i].x0 .. calc.spans[i].x1 - 1 :
              i \in 1 .. Len(calc.spans) }

\* The first pixels of the maximal runs of pixels that pass the test.
runStarts == { x \in calc.occ : x - 1 \notin calc.occ }

\* C19: during the scan of a row the fills issued and the open span cover
\* exactly the tested pixels that pass the occupancy test; when the row is
\* done the fills cover exactly the pixels that pass it, and there is one
\* fill per maximal run, the fills in left-to-right order and apart.
C19_SpanBatchEquivalence ==
    /\ calc.op = "row" =>
           coveredPixels
               \cup (IF calc.spanStart = NoSpan THEN {}
                     ELSE calc.spanStart .. calc.x - 1)
               = { x \in calc.occ : x < calc.x }
    /\ calc.op = "rowDone" =>
           /\ coveredPixels = calc.occ
           /\ Len(calc.spans) = Cardinality(runStarts)
           /\ \A i \in 1 .. Len(calc.spans) :
                  /\ calc.spans[i].x0 < calc.spans[i].x1
                  /\ calc.spans[i].x0 \in runStarts
                  /\ i > 1 => calc.spans[i - 1].x1 < calc.spans[i].x0

\* A row was scanned that has two runs or more, the last of which reaches
\* the last column.
C19_Witness ==
    /\ calc.op = "rowDone"
    /\ Len(calc.spans) >= 2
    /\ calc.spans[Len(calc.spans)].x1 = RowWidth
    /\ 0 \notin calc.occ


Marching == calc.op \in { "march", "marched" }

\* C20: every run drawn in the column is not empty, has its bottom at
\* most at the ground's row of its step and at most at the minimum row
\* drawn before it, and reaches the screen's bottom only when the ground's
\* row is there; a later run ends where or above every earlier run starts,
\* so no two runs share a row; the running minimum is the least top drawn
\* and no step increases it.
C20_SlopeRuns ==
    /\ [](Marching =>
            /\ \A i \in 1 .. Len(calc.runs) :
                   LET run == calc.runs[i]
                   IN  /\ run.top < run.bottom
                       /\ run.bottom <= run.ground
                       /\ run.bottom <= run.minBefore
                       /\ run.bottom = displayHeight =>
                              run.ground >= displayHeight
                       /\ calc.minScreenYDrawn <= run.top
                       /\ \A j \in i + 1 .. Len(calc.runs) :
                              calc.runs[j].bottom <= run.top
            /\ calc.minScreenYDrawn <= displayHeight)
    /\ [][(Marching /\ calc'.op \in { "march", "marched" }) =>
              calc'.minScreenYDrawn <= calc.minScreenYDrawn]_vars

\* A column was marched in which three runs were drawn, the first one up
\* from the ground's row and the last one up from an earlier run's top.
C20_Witness ==
    /\ calc.op = "marched"
    /\ Len(calc.runs) >= 3
    /\ calc.runs[1].bottom = calc.runs[1].ground
    /\ calc.runs[1].bottom < displayHeight
    /\ calc.runs[Len(calc.runs)].bottom < calc.runs[Len(calc.runs)].ground
    /\ calc.runs[Len(calc.runs)].bottom = calc.runs[Len(calc.runs)].minBefore


HeightTaken == calc.op = "height"

\* C21: in a cell whose slope rises toward +X the height is 0 at the
\* low-X edge, tileSize at the high-X edge, tileSize / 2 at the midpoint
\* and the X offset everywhere, whatever the Y offset; in a cell without a
\* slope the height is 0 at every point.
C21_HeightAtRisesX ==
    HeightTaken =>
        /\ calc.slopeType = SLOPE_TYPE_WEST_EAST =>
               /\ calc.ox = 0 => calc.height = 0
               /\ calc.ox = TILE_SIZE => calc.height = TILE_SIZE
               /\ 2 * calc.ox = TILE_SIZE => 2 * calc.height = TILE_SIZE
               /\ calc.height = calc.ox
        /\ calc.slopeType = SLOPE_TYPE_NONE => calc.height = 0

\* The height was taken at the midpoint of the high-Y edge of a cell that
\* rises toward +X.
C21_Witness ==
    /\ HeightTaken
    /\ calc.slopeType = SLOPE_TYPE_WEST_EAST
    /\ 2 * calc.ox = TILE_SIZE
    /\ calc.oy = TILE_SIZE
    /\ 2 * calc.height = TILE_SIZE


\* The cell the ray was in before its i-th step, and the one it entered.
cellBefore(i) ==
    IF i = 1 THEN [cx |-> startCellX, cy |-> startCellY]
    ELSE [cx |-> visited[i - 1].cx, cy |-> visited[i - 1].cy]

\* The code of a cell at a level is that of a wall that is no door.
plainWall(c, level) ==
    /\ cellAt(c.cx, c.cy, level) > 0
    /\ ~isDoor(cellAt(c.cx, c.cy, level))

\* The cell is solid at a level: a wall, or a door that is not open.
solidAt(c, level) ==
    /\ cellAt(c.cx, c.cy, level) > 0
    /\ ~(isDoor(cellAt(c.cx, c.cy, level)) /\ doorOpen(cellKeyOf(c.cx, c.cy)))

\* The steps and levels at which the ray entered a solid cell of the map
\* from a cell that is empty or a door.
frontSteps ==
    { sl \in (1 .. Len(visited)) \X (0 .. NumLevels - 1) :
        /\ ~leftMap(visited[sl[1]])
        /\ solidAt(visited[sl[1]], sl[2])
        /\ ~plainWall(cellBefore(sl[1]), sl[2]) }

\* The steps and levels at which the ray left a wall for a cell of the map
\* that is not solid.
backSteps ==
    { sl \in (1 .. Len(visited)) \X (0 .. NumLevels - 1) :
        /\ ~leftMap(visited[sl[1]])
        /\ ~solidAt(visited[sl[1]], sl[2])
        /\ plainWall(cellBefore(sl[1]), sl[2]) }

faceHits(face) == { j \in 1 .. Len(hits) : hits[j].face = face }

\* C22: while a column is cast, the front-face hits are, one for one, the
\* steps into a cell solid at a level from a cell that is empty or a door
\* at that level; every back-face hit belongs to a step from a wall into
\* a cell that is not solid, taken with the camera above z = 5, and with
\* the camera at z <= 5 there is no back-face hit.
C22_FaceHits ==
    pc \in { "dda", "sort" } =>
        /\ Cardinality(faceHits("front")) = Cardinality(frontSteps)
        /\ \A sl \in frontSteps :
               \E j \in faceHits("front") :
                   /\ hits[j].level = sl[2]
                   /\ hits[j].wallX = visited[sl[1]].cx
                   /\ hits[j].wallY = visited[sl[1]].cy
                   /\ hits[j].dist = visited[sl[1]].dist
        /\ \A j \in faceHits("back") :
               /\ canSeeOverWalls
               /\ \E sl \in backSteps :
                      /\ hits[j].level = sl[2]
                      /\ hits[j].wallX = cellBefore(sl[1]).cx
                      /\ hits[j].wallY = cellBefore(sl[1]).cy
                      /\ hits[j].dist = visited[sl[1]].dist
        /\ ~canSeeOverWalls => faceHits("back") = {}
        /\ canSeeOverWalls =>
               Cardinality(faceHits("back")) = Cardinality(backSteps)


depthReset == \A sx \in DOMAIN zBuffer : zBuffer[sx] = QInfinity

\* C23: before the first column of a frame is cast every depth entry is
\* Infinity; a step changes the depth buffer only if it starts a frame or
\* handles a hit that is no door in the opaque pass; the traversal, the
\* sort, the sprite pass and the deferred door pass leave it as it is.
C23_DepthDiscipline ==
    /\ []((pc = "strip" /\ strip = 0) => depthReset)
    /\ [][ /\ zBuffer' # zBuffer =>
                  \/ pc = "idle" /\ pc' = "strip"
                  \/ /\ pc = "pass1"
                     /\ hitIdx <= Len(hits)
                     /\ ~isDoor(hits[hitIdx].type)
           /\ pc \in { "strip", "dda", "sort", "sprites", "pass2" } =>
                  zBuffer' = zBuffer ]_vars

\* In the door pass a door has been drawn that is nearer than the depth
\* its column holds.
C23_Witness ==
    /\ pc = "pass2"
    /\ \E i \in 1 .. Len(drawn), j \in 1 .. Len(allDoorHits) :
           /\ j < hitIdx
           /\ drawn[i].kind = "door"
           /\ drawn[i].col = allDoorHits[j].strip
           /\ drawn[i].tau = allDoorHits[j].hit.dist
           /\ zBuffer[drawn[i].col * stripWidth].d # 0
           /\ QLess(drawn[i].dist, zBuffer[drawn[i].col * stripWidth])

\* C24: a frame is update() to its end, then draw() to its end, and only
\* then the next callback: update starts only between callbacks, draw
\* starts only right after update, the frame ends only when draw ends, and
\* no door entry changes from the start of update to the end of draw,
\* whatever the order of key events and frame callbacks.
C24_FrameAtomic ==
    [][ /\ calc.phase # "waiting" => doors' = doors
        /\ pc # "idle" => doors' = doors
        /\ ticks' # ticks =>
               calc.phase = "waiting" /\ calc'.phase = "updated" /\ pc = "idle"
        /\ (pc = "idle" /\ pc' # "idle") =>
               calc.phase = "updated" /\ calc'.phase = "drawing"
        /\ (calc.phase # "waiting" /\ calc'.phase = "waiting") =>
               pc = "pass2" /\ pc' = "idle" ]_vars

\* C24 witness: the second frame is drawing its deferred doors after a
\* door was toggled between the frames.
C24_Witness ==
    /\ calc = [op |-> "run", phase |-> "drawing"]
    /\ pc = "pass2"
    /\ ticks = 2
    /\ lastToggle >= 0
    /\ \E k \in DoorKeys : doors[k] # "unset"


\* The ray variables of the column being cast hold the column's values.
RayCast == pc \in { "dda", "sort", "pass1" }

\* C25: for a ray with direction component exactly 0 on one axis, the step
\* distance and the first-boundary distance of that axis are Infinity (no
\* quotient by the zero component is formed), the boundary distance stays
\* Infinity, and the cell coordinate of that axis is the start cell's for
\* every cell of the traversal.
C25_AxisAlignedRay ==
    RayCast =>
        /\ dirY(strip) = 0 =>
               /\ tDeltaY(strip) = Infinity
               /\ tMaxY0(strip) = Infinity
               /\ tMaxY = Infinity
               /\ cy = startCellY
               /\ \A i \in 1 .. Len(visited) :
                      visited[i].cy = startCellY /\ visited[i].vertical
        /\ dirX(strip) = 0 =>
               /\ tDeltaX(strip) = Infinity
               /\ tMaxX0(strip) = Infinity
               /\ tMaxX = Infinity
               /\ cx = startCellX
               /\ \A i \in 1 .. Len(visited) :
                      visited[i].cx = startCellX /\ ~visited[i].vertical

\* C25 witness: a ray along the X axis has crossed at least two cells and
\* its traversal is over.
C25_Witness ==
    /\ pc = "sort"
    /\ dirY(strip) = 0
    /\ Len(visited) >= 2
    /\ cx # startCellX

\* A ray along the Y axis has crossed at least two cells.
C25_WitnessY ==
    /\ pc = "sort"
    /\ dirX(strip) = 0
    /\ Len(visited) >= 2
    /\ cy # startCellY


\* The wall and door spans drawn so far in the frame.
spanDraws == { i \in 1 .. Len(drawn) : drawn[i].kind \in { "wall", "door" } }

\* Every drawn wall or door span lies within the screen rows.
rowsOnScreen ==
    \A i \in spanDraws :
        0 <= drawn[i].yStart /\ drawn[i].yStart < drawn[i].yEnd
            /\ drawn[i].yEnd <= displayHeight

\* The source offset is not negative and the source rows end within srcH.
srcInside(d) ==
    /\ d.srcYOffset.d > 0
    /\ d.srcYOffset.n >= 0
    /\ d.srcYEndCalc.n <= d.srcH * d.srcYEndCalc.d

\* C26: every wall or door span drawn lies within the visible screen rows,
\* 0 <= yStart < yEnd <= displayHeight, and its texture source rows stay
\* inside the material's source rectangle: srcYOffset >= 0 and
\* srcYOffset + srcDrawH <= srcH.
C26_SpansInBounds ==
    /\ rowsOnScreen
    /\ \A i \in spanDraws : srcInside(drawn[i])

playerKey == playerCellX + playerCellY * MAP_WIDTH

\* C27: from a passable cell of the map, after any sequence of update()
\* steps and F key presses the player's position is on the map and isWall
\* is false for it; a step moves the player on an axis only to a position
\* for which isWall is false, and no step changes the door entry of the
\* cell the player stands in.
C27_PlayerPassable ==
    /\ [](onMap(player.x, player.y) /\ ~isWall(player.x, player.y))
    /\ [][ /\ playerKey \notin changedDoors
           /\ player.x' # player.x => ~isWall(player.x', player.y)
           /\ player.y' # player.y => ~isWall(player.x', player.y') ]_vars

\* C27 witness: the F key has closed the door ahead of the player, which
\* is not the player's cell, and update() has moved the player since the
\* start, the last time along Y.
C27_Witness ==
    /\ ticks >= 2
    /\ lastToggle >= 0
    /\ lastToggle # playerKey
    /\ doors[lastToggle] = "closed"
    /\ player.y # lastMove.fromY
    /\ ~isWall(player.x, player.y)

cellOnMap(x, y) == 0 <= x /\ x < MAP_WIDTH /\ 0 <= y /\ y < MAP_HEIGHT

\* C28: the DDA loop of a column ends: every iteration moves exactly one of
\* cx, cy by one cell in the column's fixed step direction, the loop goes
\* on only inside the map and is left only by the bounds check or by the
\* ground-solid break, and a column never takes more than
\* MAP_WIDTH + MAP_HEIGHT iterations.
C28_DDATerminates ==
    /\ [](RayCast => Len(visited) <= MAP_WIDTH + MAP_HEIGHT)
    /\ [](pc = "dda" => cellOnMap(cx, cy))
    /\ [][ pc = "dda" =>
               /\ Len(visited') = Len(visited) + 1
               /\ \/ cx' = cx + stepX(strip) /\ cy' = cy
                  \/ cx' = cx /\ cy' = cy + stepY(strip)
               /\ pc' \in { "dda", "sort" }
               /\ pc' = "sort" =>
                      \/ ~cellOnMap(cx', cy')
                      \/ groundSolid(cx', cy') /\ ~canSeeOverWalls ]_vars

\* C28 witness: a ray that sees over the walls has crossed the map and left
\* it by the bounds check after passing a solid ground cell.
C28_Witness ==
    /\ pc = "sort"
    /\ canSeeOverWalls
    /\ ~cellOnMap(cx, cy)
    /\ Len(visited) >= 4
    /\ \E i \in 1 .. Len(visited) - 1 : groundSolid(visited[i].cx, visited[i].cy)


\* The step is the first update() of a jump: velocityZ was set to
\* jumpStrength and gravity applied once.
jumpStarts == player.vz2' = 2 * jumpStrength - 1

\* C29: after every update(), for any sequence of Space key states,
\* player.z >= groundZ, velocityZ is 0 whenever player.z equals groundZ, and
\* player.z is at most the apex of one jump, which is 138; a jump starts
\* only in an update() that begins with player.z <= groundZ + 1, and then
\* the player is on the ground, never in mid-air.
C29_JumpBounded ==
    /\ [](/\ player.z2 >= 2 * groundZ
          /\ player.z2 = 2 * groundZ => player.vz2 = 0
          /\ player.z2 <= JumpZ2(2 * jumpStrength)
          /\ JumpZ2(2 * jumpStrength) = 2 * 138)
    /\ [][ jumpStarts =>
               /\ player.z2 <= 2 * (groundZ + 1)
               /\ player.z2 = 2 * groundZ /\ player.vz2 = 0 ]_vars

\* C29 witness: the player is at the apex of a second jump, 138 above the
\* ground with velocity 0.
C29_Witness ==
    /\ calc.op = "jump"
    /\ player.z2 = 2 * 138
    /\ player.vz2 = 0
    /\ ticks > 4 * jumpStrength


\* The door spans drawn so far in the frame.
doorSpans == { i \in 1 .. Len(drawn) : drawn[i].kind = "door" }

\* C30: of two door hits of one column, allDoorHits holds the farther one
\* first, and of two hits at one distance the one on the higher level; the
\* deferred pass draws the door spans of a column in that order, so the
\* span of a nearer door is drawn after the span of a farther one.
C30_DoorsFarToNear ==
    /\ \A i, j \in 1 .. Len(allDoorHits) :
           (i < j /\ allDoorHits[i].strip = allDoorHits[j].strip) =>
               /\ allDoorHits[i].hit.dist >= allDoorHits[j].hit.dist
               /\ allDoorHits[i].hit.dist = allDoorHits[j].hit.dist =>
                      allDoorHits[i].hit.level >= allDoorHits[j].hit.level
    /\ \A i, j \in doorSpans :
           (i < j /\ drawn[i].col = drawn[j].col) =>
               ~QLess(drawn[i].dist, drawn[j].dist)

\* C30 witness: the deferred pass has drawn two door spans of one column,
\* at different distances, that share a screen row.
C30_Witness ==
    /\ pc = "idle"
    /\ \E i, j \in doorSpans :
           /\ i < j
           /\ drawn[i].col = drawn[j].col
           /\ QLess(drawn[j].dist, drawn[i].dist)
           /\ drawn[i].yStart < drawn[j].yEnd
           /\ drawn[j].yStart < drawn[i].yEnd


====
